---- MODULE Spec2Model ----
(***************************************************************************)
(* Job-Hunter: the discovery-and-filtering pipeline.                       *)
(*                                                                         *)
(*   Spec        discoverJobs, GET /api/scout (src/unnamed/part_001,       *)
(*               src/src/server.ts, src/src/log/appLog.ts)                 *)
(*   FilterSpec  evaluateFilters        (src/src/config/userConfig.ts)     *)
(*   RetrySpec   callWithRetry          (src/src/analyzer/claude.ts)       *)
(*   SearchSpec  searchViaSearXNG       (src/unnamed/part_001)             *)
(*   ServerSpec  two GET /api/scout requests and the logging step of a     *)
(*               POST /api/analyze request, interleaved                    *)
(*   SpellingSpec  discoverJobs over the spellings of one site             *)
(*   FeedSpec    fetchNoFluffJobsRSS and the map of discoverJobs           *)
(*   PreflagSpec   the map of discoverJobs over listing texts              *)
(*   CrossRefSpec  the end of discoverJobs over the listings collected     *)
(*   AnalyzeSpec   POST /api/analyze and PATCH /api/applications/:id       *)
(*                 requests of one server process, interleaved             *)
(*                                                                         *)
(* Every specification shares the variables below; a specification keeps   *)
(* the variables of the components it does not run at their idle values.   *)
(***************************************************************************)
EXTENDS Integers, Sequences, FiniteSets, TLC

VARIABLES
    \* ---- callWithRetry (analyzer/claude.ts) ----
    script,     \* behaviour of the wrapped call: outcome of its n-th invocation
    rpc,        \* position in callWithRetry: "idle", "try", "wait", "returned", "thrown"
    attempt,    \* the loop variable `attempt`
    ncalls,     \* number of invocations of client.messages.create so far
    waits,      \* the delays (ms) slept so far, in order
    rresult,    \* the value returned, or the error thrown, by callWithRetry
    \* ---- evaluateFilters (config/userConfig.ts) ----
    fconfig,    \* the UserConfig object: its fields, in declaration order
    fresult,    \* the AnalysisResult (match_score, ghost_score)
    fjd,        \* jdText
    fage,       \* posting_age_days (None for null)
    fchecks,    \* the FilterCheck[] returned
    fpc,        \* "idle", "call" (arguments fixed), "done" (returned)
    \* ---- discoverJobs (part_001) and GET /api/scout (server.ts) ----
    caller,     \* "scout": a GET /api/scout request; "direct": a call of discoverJobs
    reqSites,   \* search_sites of the config (None: no such field) / the sites argument
    reqKeywords, \* role_keywords of the config (None: no such field) / the keywords argument
    logFile,    \* data/applications.json
    dpc,        \* "none", "idle", "fetch" (awaiting the adapter of site idx), "pause", "done"
    dargs,      \* None until discoverJobs is called, then its arguments
    idx,        \* index of the site the loop is at
    dlog,       \* the local `log`: the history as loaded at entry
    logReads,   \* number of times the run has called loadLog
    raw,        \* the local `raw`: RawResult[]
    calls,      \* the adapter invocations so far, each pending, ok or failed
    elapsed,    \* ms slept in the pauses between sites
    dreturn,    \* None, or how discoverJobs settled: returned value or thrown
    response,   \* None, or the HTTP response of GET /api/scout
    \* ---- searchViaSearXNG (part_001) ----
    sargs,      \* None, or the arguments site and keywords of the call
    spc,        \* "idle", "call", "request" (awaiting instance sinst), "returned"
    sinst,      \* index in SEARXNG_INSTANCES of the instance the loop is at
    squeried,   \* the requests issued so far, in order
    sanswers,   \* how each of them settled
    sreturn,    \* None, or the list searchViaSearXNG resolved with
    \* ---- a second GET /api/scout request served at the same time ----
    peer,       \* its position, its locals `log` and `raw`, and how it settled
    \* ---- fetchNoFluffJobsRSS and the map of discoverJobs (part_001) ----
    feedItems,  \* the <item> elements of the feed the request resolves with
    feedpc,     \* "idle", "request", "fetched", "done"
    feedRaw,    \* the RawResult[] fetchNoFluffJobsRSS returns
    feedResults, \* the DiscoveryResult[] built from them
    \* ---- POST /api/analyze and PATCH /api/applications/:id (server.ts) ----
    areq,       \* each analyze request: its position, its locals and its response
    clock,      \* the latest value Date.now() has returned in the process
    journal,    \* history: the entries of the log at the start, then each entry a
                \* logApplication call has written, in the order of the writes
    lastPatch   \* None, or the latest status-update request and its response

retryVars == <<script, rpc, attempt, ncalls, waits, rresult>>
filterVars == <<fconfig, fresult, fjd, fage, fchecks, fpc>>

discVars == <<caller, reqSites, reqKeywords, logFile, dpc, dargs, idx, dlog, logReads,
              raw, calls, elapsed, dreturn, response>>

searchVars == <<sargs, spc, sinst, squeried, sanswers, sreturn>>

\* The variables of the components added to the three above.
feedVars == <<feedItems, feedpc, feedRaw, feedResults>>

analyzeVars == <<areq, clock, journal, lastPatch>>

auxVars == <<searchVars, peer, feedVars, analyzeVars>>

vars == <<retryVars, filterVars, discVars, auxVars>>

\* An absent value (null / undefined) and a present one.
None == <<>>
Some(x) == <<x>>

RECURSIVE SumSeq(_)
SumSeq(s) == IF s = <<>> THEN 0 ELSE Head(s) + SumSeq(Tail(s))

\* A component that a specification does not run stays as constructed.
DiscIdle ==
    /\ caller = "none"
    /\ reqSites = None
    /\ reqKeywords = None
    /\ logFile = [state |-> "missing", entries |-> <<>>]
    /\ dpc = "none"
    /\ dargs = None
    /\ idx = 0
    /\ dlog = <<>>
    /\ logReads = 0
    /\ raw = <<>>
    /\ calls = <<>>
    /\ elapsed = 0
    /\ dreturn = None
    /\ response = None

SearchIdle ==
    /\ sargs = None
    /\ spc = "idle"
    /\ sinst = 0
    /\ squeried = <<>>
    /\ sanswers = <<>>
    /\ sreturn = None

PeerIdle == peer = [pc |-> "none", log |-> <<>>, reads |-> 0, raw |-> <<>>, settled |-> None]

FeedIdle ==
    /\ feedItems = <<>>
    /\ feedpc = "idle"
    /\ feedRaw = <<>>
    /\ feedResults = <<>>

AnalyzeIdle ==
    /\ areq = <<>>
    /\ clock = 0
    /\ journal = <<>>
    /\ lastPatch = None

AuxIdle == SearchIdle /\ PeerIdle /\ FeedIdle /\ AnalyzeIdle

RetryIdle ==
    /\ script = <<>>
    /\ rpc = "idle"
    /\ attempt = 0
    /\ ncalls = 0
    /\ waits = <<>>
    /\ rresult = None

(***************************************************************************)
(* Text: a string is the sequence of its characters.                       *)
(***************************************************************************)

UpperChars == <<"A", "B", "C", "D", "E", "F", "G", "H", "I", "J", "K", "L", "M", "N", "O", "P", "Q", "R", "S", "T", "U", "V", "W", "X", "Y", "Z">>

LowerChars == <<"a", "b", "c", "d", "e", "f", "g", "h", "i", "j", "k", "l", "m", "n", "o", "p", "q", "r", "s", "t", "u", "v", "w", "x", "y", "z">>

\* String.prototype.toLowerCase
toLowerCase(s) ==
    [i \in 1..Len(s) |->
        IF \E j \in 1..Len(UpperChars) : UpperChars[j] = s[i]
        THEN LowerChars[CHOOSE j \in 1..Len(UpperChars) : UpperChars[j] = s[i]]
        ELSE s[i]]

\* String.prototype.includes
includes(s, k) ==
    \E i \in 0..(Len(s) - Len(k)) : SubSeq(s, i + 1, i + Len(k)) = k

\* Array.prototype.some over a list of keywords
someIncluded(s, ks) == \E n \in 1..Len(ks) : includes(s, ks[n])

(***************************************************************************)
(* evaluateFilters                                                         *)
(***************************************************************************)

\* The UserConfig fields that drive a filter rule, in the order types.ts
\* declares them.
FilterFields ==
    <<"min_match_score", "max_ghost_score", "max_age_days",
      "require_salary", "work_mode", "role_keywords">>

\* Reading a property of the parsed config object: undefined (None) when no
\* field of that name is declared, else the value of its last declaration.
ConfigGet(c, key) ==
    LET at == {i \in 1..Len(c) : c[i][1] = key}
    IN  IF at = {} THEN None
        ELSE Some(c[CHOOSE i \in at : \A j \in at : j <= i][2])

\* userConfig.ts:57-61
KW_remote ==
    << <<"r", "e", "m", "o", "t", "e">>,
       <<"z", "d", "a", "l", "n">>,
       <<"h", "o", "m", "e", " ", "o", "f", "f", "i", "c", "e">>,
       <<"w", "o", "r", "k", " ", "f", "r", "o", "m", " ", "h", "o", "m", "e">> >>

KW_hybrid ==
    << <<"h", "y", "b", "r", "i", "d">>,
       <<"h", "y", "b", "r", "y", "d", "o", "w">> >>

KW_onsite ==
    << <<"o", "n", "-", "s", "i", "t", "e">>,
       <<"o", "n", "s", "i", "t", "e">>,
       <<"i", "n", " ", "o", "f", "f", "i", "c", "e">>,
       <<"s", "t", "a", "c", "j", "o", "n", "a", "r", "n", "i", "e">>,
       <<"b", "i", "u", "r", "o">> >>

\* keywords[config.work_mode] ?? []   (userConfig.ts:62)
workModeKeywords(mode) ==
    CASE mode = "remote" -> KW_remote
      [] mode = "hybrid" -> KW_hybrid
      [] mode = "onsite" -> KW_onsite
      [] OTHER -> <<>>

\* userConfig.ts:74 ("l-stroke" stands for the Polish letter in the zloty sign)
salaryKw ==
    << <<"s", "a", "l", "a", "r", "y">>,
       <<"w", "y", "n", "a", "g", "r", "o", "d", "z", "e", "n", "i", "e">>,
       <<"z", "l-stroke">>,
       <<"p", "l", "n">>,
       <<"e", "u", "r">>,
       <<"u", "s", "d">>,
       <<"b", "2", "b">>,
       <<"u", "o", "p">>,
       <<"u", "m", "o", "w", "a">> >>

\* A FilterCheck; the reason is kept as its template and the values it embeds.
FilterCheck(n, p, text, args) ==
    [name |-> n, passed |-> p, reason |-> [text |-> text, args |-> args]]

\* userConfig.ts:25-32
MatchScoreCheckDefaulted(c, r) ==
    LET th == IF ConfigGet(c, "min_match_score") = None THEN 0
              ELSE ConfigGet(c, "min_match_score")[1]
        pass == r.match_score >= th
    IN  << FilterCheck("Match Score", pass, IF pass THEN ">=" ELSE "<", <<r.match_score, th>>) >>
MatchScoreCheck(c, r) ==
    LET th == ConfigGet(c, "min_match_score") IN
    IF th # None
    THEN LET pass == r.match_score >= th[1]
         IN  << FilterCheck("Match Score", pass, IF pass THEN ">=" ELSE "<",
                            <<r.match_score, th[1]>>) >>
    ELSE <<>>

\* userConfig.ts:34-41
GhostRiskCheckStrict(c, r) ==
    LET th == ConfigGet(c, "max_ghost_score") IN
    IF th # None
    THEN LET pass == r.ghost_score < th[1]
         IN  << FilterCheck("Ghost Risk", pass, IF pass THEN "<=" ELSE ">",
                            <<r.ghost_score, th[1]>>) >>
    ELSE <<>>
GhostRiskCheck(c, r) ==
    LET th == ConfigGet(c, "max_ghost_score") IN
    IF th # None
    THEN LET pass == r.ghost_score <= th[1]
         IN  << FilterCheck("Ghost Risk", pass, IF pass THEN "<=" ELSE ">",
                            <<r.ghost_score, th[1]>>) >>
    ELSE <<>>

\* userConfig.ts:50 (the source writes a dash character between the clauses)
UNKNOWN_AGE_REASON == "Posting date unknown - cannot verify"

\* userConfig.ts:43-53
FreshnessCheckAssumingOld(c, age) ==
    LET th == ConfigGet(c, "max_age_days") IN
    IF th # None
    THEN LET pass == age # None /\ age[1] <= th[1]
         IN  << FilterCheck("Freshness", pass,
                            IF age = None THEN UNKNOWN_AGE_REASON
                            ELSE IF pass THEN "d <= d" ELSE "d > d",
                            IF age = None THEN <<>> ELSE <<age[1], th[1]>>) >>
    ELSE <<>>
FreshnessCheck(c, age) ==
    LET th == ConfigGet(c, "max_age_days") IN
    IF th # None
    THEN LET pass == age = None \/ age[1] <= th[1]
         IN  << FilterCheck("Freshness", pass,
                            IF age = None THEN UNKNOWN_AGE_REASON
                            ELSE IF pass THEN "d <= d" ELSE "d > d",
                            IF age = None THEN <<>> ELSE <<age[1], th[1]>>) >>
    ELSE <<>>

\* userConfig.ts:55-70
WorkModeCheck(c, jd) ==
    LET wm == ConfigGet(c, "work_mode") IN
    IF wm # None /\ wm[1] # "" /\ wm[1] # "any"
    THEN LET jdLower == toLowerCase(jd)
             pass == someIncluded(jdLower, workModeKeywords(wm[1]))
         IN  << FilterCheck("Work Mode", pass,
                            IF pass THEN "detected" ELSE "required, not found in JD",
                            <<wm[1]>>) >>
    ELSE <<>>

\* userConfig.ts:72-81
SalaryCheck(c, jd) ==
    LET rs == ConfigGet(c, "require_salary") IN
    IF rs # None /\ rs[1]
    THEN LET pass == someIncluded(toLowerCase(jd), salaryKw)
         IN  << FilterCheck("Salary Visible", pass,
                            IF pass THEN "Salary information detected in JD"
                            ELSE "No salary information found", <<>>) >>
    ELSE <<>>

\* userConfig.ts:83-94
RoleKeywordsCheck(c, jd) ==
    LET rk == ConfigGet(c, "role_keywords") IN
    IF rk # None /\ Len(rk[1]) > 0
    THEN LET jdLower == toLowerCase(jd)
             matched == SelectSeq(rk[1], LAMBDA k : includes(jdLower, toLowerCase(k)))
             pass == Len(matched) > 0
         IN  << FilterCheck("Role Keywords", pass,
                            IF pass THEN "Matched:" ELSE "None of [] found in JD",
                            IF pass THEN matched ELSE rk[1]) >>
    ELSE <<>>

\* userConfig.ts:17-97: the checks are pushed in the order of the statements.
evaluateFiltersTextFirst(c, r, jd, age) ==
    WorkModeCheck(c, jd) \o SalaryCheck(c, jd) \o RoleKeywordsCheck(c, jd)
        \o MatchScoreCheck(c, r) \o GhostRiskCheck(c, r) \o FreshnessCheck(c, age)
RECURSIVE upToFirstFailure(_)
upToFirstFailure(cs) ==
    IF cs = <<>> THEN <<>>
    ELSE IF ~Head(cs).passed THEN <<Head(cs)>>
    ELSE <<Head(cs)>> \o upToFirstFailure(Tail(cs))
evaluateFiltersEarlyExit(c, r, jd, age) ==
    upToFirstFailure(MatchScoreCheck(c, r) \o GhostRiskCheck(c, r) \o FreshnessCheck(c, age)
        \o WorkModeCheck(c, jd) \o SalaryCheck(c, jd) \o RoleKeywordsCheck(c, jd))
evaluateFilters(c, r, jd, age) ==
    MatchScoreCheck(c, r) \o GhostRiskCheck(c, r) \o FreshnessCheck(c, age)
        \o WorkModeCheck(c, jd) \o SalaryCheck(c, jd) \o RoleKeywordsCheck(c, jd)

\* ---- the inputs evaluateFilters is applied to ----

JD_EMPTY == <<>>

JD_REMOTE == <<"R", "e", "m", "o", "t", "e", " ", "Q", "A", ",", " ", "B", "2", "B">>

JD_OFFICE == <<"O", "n", "s", "i", "t", "e", "/", "h", "y", "b", "r", "i", "d", " ", "D", "e", "v">>

JdTexts == {JD_EMPTY, JD_REMOTE, JD_OFFICE}

KEY_QA == <<"Q", "A">>

KEY_DEV == <<"d", "e", "v">>

\* Values each optional field takes (None: the field is not declared).
FieldValues ==
    [min_match_score : {None, Some(0), Some(60)},
     max_ghost_score : {None, Some(0), Some(50)},
     max_age_days    : {None, Some(0), Some(10)},
     require_salary  : {None, Some(FALSE), Some(TRUE)},
     work_mode       : {None, Some("any"), Some("remote"), Some("hybrid"), Some("onsite")},
     role_keywords   : {None, Some(<<>>), Some(<<KEY_QA, KEY_DEV>>)}]

\* Orders in which a config file declares its fields.
RECURSIVE Reverse(_)
Reverse(s) == IF s = <<>> THEN <<>> ELSE Append(Reverse(Tail(s)), Head(s))

DeclOrders == {FilterFields, Reverse(FilterFields)}

\* The config object holding the declared fields of `assign`, in `order`.
RECURSIVE BuildConfig(_, _)
BuildConfig(assign, order) ==
    IF order = <<>> THEN <<>>
    ELSE (IF assign[Head(order)] = None THEN <<>>
          ELSE << <<Head(order), assign[Head(order)][1]>> >>)
         \o BuildConfig(assign, Tail(order))

AnalysisResults ==
    {[match_score |-> 0, ghost_score |-> 0],
     [match_score |-> 59, ghost_score |-> 51],
     [match_score |-> 60, ghost_score |-> 50],
     [match_score |-> 100, ghost_score |-> 100]}

PostingAges == {None, Some(0), Some(10), Some(11)}

FilterIdle ==
    /\ fconfig = <<>>
    /\ fresult = [match_score |-> 0, ghost_score |-> 0]
    /\ fjd = <<>>
    /\ fage = None
    /\ fchecks = <<>>
    /\ fpc = "idle"

FilterInit ==
    /\ RetryIdle
    /\ DiscIdle
    /\ AuxIdle
    /\ \E assign \in FieldValues, order \in DeclOrders :
          fconfig = BuildConfig(assign, order)
    /\ fresult \in AnalysisResults
    /\ fjd \in JdTexts
    /\ fage \in PostingAges
    /\ fchecks = <<>>
    /\ fpc = "call"

\* The call evaluateFilters(config, result, jdText, posting_age_days).
EvaluateFilters ==
    /\ fpc = "call"
    /\ fchecks' = evaluateFilters(fconfig, fresult, fjd, fage)
    /\ fpc' = "done"
    /\ UNCHANGED <<fconfig, fresult, fjd, fage, retryVars, discVars, auxVars>>

FilterNext == EvaluateFilters

FilterSpec == FilterInit /\ [][FilterNext]_vars

\* ---- what the config asks for, read field by field ----

FieldDeclared(key) == \E i \in 1..Len(fconfig) : fconfig[i][1] = key
FieldValue(key) == ConfigGet(fconfig, key)[1]

\* The rule of each name applies iff its field is defined / applicable.
RuleApplies(name) ==
    CASE name = "Match Score" -> FieldDeclared("min_match_score")
      [] name = "Ghost Risk" -> FieldDeclared("max_ghost_score")
      [] name = "Freshness" -> FieldDeclared("max_age_days")
      [] name = "Work Mode" -> FieldDeclared("work_mode") /\ FieldValue("work_mode") # "any"
      [] name = "Salary Visible" -> FieldDeclared("require_salary") /\ FieldValue("require_salary")
      [] name = "Role Keywords" -> FieldDeclared("role_keywords") /\ FieldValue("role_keywords") # <<>>

RuleOrder ==
    <<"Match Score", "Ghost Risk", "Freshness", "Work Mode", "Salary Visible", "Role Keywords">>

CheckNames == [i \in 1..Len(fchecks) |-> fchecks[i].name]

\* C3: the number of checks returned equals the number of defined/applicable
\* config fields (0 to 6) and the checks appear in the fixed order Match Score,
\* Ghost Risk, Freshness, Work Mode, Salary Visible, Role Keywords, whatever the
\* order in which the config declares its fields.
C3_CountAndOrder ==
    fpc = "done" =>
        /\ Len(fchecks) = Cardinality({n \in 1..Len(RuleOrder) : RuleApplies(RuleOrder[n])})
        /\ Len(fchecks) \in 0..6
        /\ CheckNames = SelectSeq(RuleOrder, RuleApplies)

C3_Witness ==
    /\ fpc = "done"
    /\ Len(fchecks) = 6
    /\ fconfig[1][1] = "role_keywords"
    /\ fchecks[1].name = "Match Score"
    /\ fchecks[6].name = "Role Keywords"

\* C4: with a configuration in which no field is set, evaluateFilters returns
\* the empty list for every analysis result, JD text and posting age: it
\* returns (does not fail) and no check, so none with passed = true, is in it.
C4_EmptyConfigNoChecks ==
    fconfig = <<>> =>
        /\ fpc \in {"call", "done"}
        /\ fpc = "done" =>
              /\ fchecks = <<>>
              /\ ~\E i \in 1..Len(fchecks) : fchecks[i].passed

C4_Witness ==
    /\ fpc = "done"
    /\ fconfig = <<>>
    /\ fjd = JD_REMOTE
    /\ fage = None
    /\ fresult.match_score = 100
    /\ fchecks = <<>>

FreshnessChecks == SelectSeq(fchecks, LAMBDA ch : ch.name = "Freshness")

\* C10: when max_age_days is set, a Freshness check is emitted; with a null
\* posting age it has passed = true and a reason stating that the age cannot be
\* verified; with a known age it passes iff age <= max_age_days.
C10_Freshness ==
    (fpc = "done" /\ FieldDeclared("max_age_days")) =>
        /\ Len(FreshnessChecks) = 1
        /\ fage = None =>
              /\ FreshnessChecks[1].passed
              /\ FreshnessChecks[1].reason.text = "Posting date unknown - cannot verify"
        /\ fage # None =>
              /\ FreshnessChecks[1].passed <=> (fage[1] <= FieldValue("max_age_days"))
              /\ FreshnessChecks[1].reason.text # "Posting date unknown - cannot verify"

C10_Witness ==
    /\ fpc = "done"
    /\ ConfigGet(fconfig, "max_age_days") = Some(10)
    /\ fage = None
    /\ Len(FreshnessChecks) = 1
    /\ FreshnessChecks[1].passed

ChecksNamed(name) == SelectSeq(fchecks, LAMBDA ch : ch.name = name)

RuleField(name) ==
    CASE name = "Match Score" -> "min_match_score"
      [] name = "Ghost Risk" -> "max_ghost_score"
      [] name = "Freshness" -> "max_age_days"
      [] name = "Work Mode" -> "work_mode"
      [] name = "Salary Visible" -> "require_salary"
      [] name = "Role Keywords" -> "role_keywords"

\* Whether a rule passes, from its own field and the inputs it looks at.
RulePasses(name) ==
    CASE name = "Match Score" -> fresult.match_score >= FieldValue("min_match_score")
      [] name = "Ghost Risk" -> fresult.ghost_score <= FieldValue("max_ghost_score")
      [] name = "Freshness" -> fage = None \/ fage[1] <= FieldValue("max_age_days")
      [] name = "Work Mode" ->
            someIncluded(toLowerCase(fjd), workModeKeywords(FieldValue("work_mode")))
      [] name = "Salary Visible" -> someIncluded(toLowerCase(fjd), salaryKw)
      [] name = "Role Keywords" ->
            \E n \in 1..Len(FieldValue("role_keywords")) :
                includes(toLowerCase(fjd), toLowerCase(FieldValue("role_keywords")[n]))

\* The config that declares the field of one rule only.
OnlyField(key) == SelectSeq(fconfig, LAMBDA f : f[1] = key)

\* C20: the rules are evaluated independently, with no early exit: the check
\* of every configured rule is in the output whatever the other rules give,
\* its passed value follows from that rule's own threshold or keywords and
\* inputs, and the check is the one the rule yields when it is the only rule
\* configured.
C20_RulesIndependent ==
    fpc = "done" =>
        \A n \in 1..Len(RuleOrder) :
            LET name == RuleOrder[n] IN
            /\ RuleApplies(name) =>
                  /\ Len(ChecksNamed(name)) = 1
                  /\ ChecksNamed(name)[1].passed <=> RulePasses(name)
            /\ ChecksNamed(name) = evaluateFilters(OnlyField(RuleField(name)), fresult, fjd, fage)

C20_Witness ==
    /\ fpc = "done"
    /\ Len(fchecks) = 6
    /\ ~fchecks[1].passed
    /\ ~fchecks[2].passed
    /\ fchecks[3].passed
    /\ fchecks[4].passed
    /\ ~fchecks[5].passed
    /\ fchecks[6].passed

\* C21: the threshold rules are inclusive at the boundary: when
\* min_match_score is set the Match Score check passes iff match_score >=
\* min_match_score, and when max_ghost_score is set the Ghost Risk check
\* passes iff ghost_score <= max_ghost_score; a score equal to its threshold
\* passes, a threshold of 0 included.
C21_ThresholdsInclusive ==
    fpc = "done" =>
        /\ FieldDeclared("min_match_score") =>
              LET th == FieldValue("min_match_score")
                  ch == ChecksNamed("Match Score")
              IN  /\ Len(ch) = 1
                  /\ ch[1].passed <=> (fresult.match_score >= th)
                  /\ fresult.match_score = th => ch[1].passed
                  /\ fresult.match_score = th - 1 => ~ch[1].passed
        /\ FieldDeclared("max_ghost_score") =>
              LET th == FieldValue("max_ghost_score")
                  ch == ChecksNamed("Ghost Risk")
              IN  /\ Len(ch) = 1
                  /\ ch[1].passed <=> (fresult.ghost_score <= th)
                  /\ fresult.ghost_score = th => ch[1].passed
                  /\ fresult.ghost_score = th + 1 => ~ch[1].passed

C21_Witness ==
    /\ fpc = "done"
    /\ ConfigGet(fconfig, "min_match_score") = Some(60)
    /\ ConfigGet(fconfig, "max_ghost_score") = Some(50)
    /\ fresult = [match_score |-> 60, ghost_score |-> 50]
    /\ ChecksNamed("Match Score")[1].passed
    /\ ChecksNamed("Ghost Risk")[1].passed

(***************************************************************************)
(* The application log (log/appLog.ts)                                     *)
(***************************************************************************)

\* Calendar dates are day numbers; new Date("YYYY-MM-DD").getTime() is the
\* UTC midnight of that day.
MS_PER_DAY == 86400000
DateToMs(d) == d * MS_PER_DAY

\* Date.now() when the results are built: noon of day 1.
NowMs == 129600000

\* appLog.ts:7-17. The file is missing, cannot be read, holds text that is
\* not JSON, holds JSON that is not an array, or holds the list of entries.
loadLog(file) ==
    CASE file.state = "missing" -> [thrown |-> FALSE, isArray |-> TRUE, entries |-> <<>>]
      [] file.state = "unreadable" -> [thrown |-> TRUE, isArray |-> FALSE, entries |-> <<>>]
      [] file.state = "garbage" -> [thrown |-> FALSE, isArray |-> TRUE, entries |-> <<>>]
      [] file.state = "object" -> [thrown |-> FALSE, isArray |-> FALSE, entries |-> <<>>]
      [] file.state = "list" -> [thrown |-> FALSE, isArray |-> TRUE, entries |-> file.entries]

\* appLog.ts:7-17: loadLog tests and reads the file and writes nothing.
fileAfterLoadCreating(file) ==
    IF file.state = "missing" THEN [state |-> "list", entries |-> <<>>] ELSE file
fileAfterLoad(file) == file

(***************************************************************************)
(* discoverJobs (part_001) and GET /api/scout (server.ts)                  *)
(***************************************************************************)

\* Bounds of the model.
MaxSites == 2
MaxPerSite == 2
MaxLog == 2

PAUSE_MS == 600

NOFLUFFJOBS == <<"n", "o", "f", "l", "u", "f", "f", "j", "o", "b", "s", ".", "c", "o", "m">>

JUSTJOIN == <<"j", "u", "s", "t", "j", "o", "i", "n", ".", "i", "t">>

SCHEME_SEP == <<":", "/", "/">>

WWW_DOT == <<"w", "w", "w", ".">>

\* String.prototype.replace(/^www\./, '')
stripWww(s) ==
    IF Len(s) >= Len(WWW_DOT) /\ SubSeq(s, 1, Len(WWW_DOT)) = WWW_DOT
    THEN SubSeq(s, Len(WWW_DOT) + 1, Len(s))
    ELSE s

\* new URL(site).hostname for a site holding "://": the text between "://"
\* and the next "/", lower-cased (ports, credentials, "?" and "#" are not
\* modelled); None when the URL constructor throws (no scheme or no host).
urlHostname(s) ==
    LET at == CHOOSE i \in 1..Len(s) :
                  /\ SubSeq(s, i, i + 2) = SCHEME_SEP
                  /\ \A j \in 1..(i - 1) : SubSeq(s, j, j + 2) # SCHEME_SEP
        rest == SubSeq(s, at + 3, Len(s))
        stops == {i \in 1..Len(rest) : rest[i] = "/"}
        host == IF stops = {} THEN rest
                ELSE SubSeq(rest, 1, (CHOOSE i \in stops : \A j \in stops : i <= j) - 1)
    IN  IF at = 1 \/ host = <<>> THEN None ELSE Some(toLowerCase(host))

\* part_001:11-16
normalizeSite(site) ==
    IF includes(site, SCHEME_SEP) /\ urlHostname(site) # None
    THEN stripWww(urlHostname(site)[1])
    ELSE stripWww(site)

\* part_001:184-190: which adapter serves a normalised site
adapterFor(site) ==
    IF site = NOFLUFFJOBS THEN "feed"
    ELSE IF site = JUSTJOIN THEN "markup"
    ELSE "search"

\* The `site` the adapter writes into its listings (part_001:95, 133, 165).
listingSite(site) ==
    CASE adapterFor(site) = "feed" -> NOFLUFFJOBS
      [] adapterFor(site) = "markup" -> JUSTJOIN
      [] OTHER -> site

\* The feed and the embedded-markup adapter await one request outside any
\* try block and so can reject (part_001:69, 106); searchViaSearXNG catches
\* every failure of every instance and returns [] (part_001:153-170).
canFail(adapter) == adapter \in {"feed", "markup"}

URLs == {"u1", "u2"}

UrlLists == UNION {[1..n -> URLs] : n \in 0..MaxPerSite}

\* The URL lists an adapter can resolve with. The feed and the markup adapter
\* keep an item only if some keyword matches it (part_001:90, 125), so with
\* no keyword they return nothing; the meta-search returns what the search
\* instance found.
adapterLists(adapter, keywords) ==
    IF adapter \in {"feed", "markup"} /\ keywords = <<>> THEN {<<>>} ELSE UrlLists

\* The RawResults of the i-th site's adapter: every listing has a non-empty
\* url (part_001:82, 123, 166) and a title of its own.
rawResults(i, site, urls) ==
    [j \in 1..Len(urls) |-> [url |-> urls[j], title |-> <<i, j>>, site |-> listingSite(site)]]

\* part_001:200-205: keep a listing iff its url is non-empty and not seen
\* earlier in `raw`.
RECURSIVE dedupFrom(_, _)
dedupFrom(rs, seenRaw) ==
    IF rs = <<>> THEN <<>>
    ELSE IF Head(rs).url = "" \/ Head(rs).url \in seenRaw
         THEN dedupFrom(Tail(rs), seenRaw)
         ELSE <<Head(rs)>> \o dedupFrom(Tail(rs), seenRaw \cup {Head(rs).url})

RECURSIVE dedupKeepLast(_)
dedupKeepLast(rs) ==
    IF rs = <<>> THEN <<>>
    ELSE IF \E k \in 2..Len(rs) : rs[k].url = Head(rs).url
         THEN dedupKeepLast(Tail(rs))
         ELSE <<Head(rs)>> \o dedupKeepLast(Tail(rs))
RECURSIVE dedupKeepingEmpty(_, _)
dedupKeepingEmpty(rs, seenRaw) ==
    IF rs = <<>> THEN <<>>
    ELSE IF Head(rs).url \in seenRaw
         THEN dedupKeepingEmpty(Tail(rs), seenRaw)
         ELSE <<Head(rs)>> \o dedupKeepingEmpty(Tail(rs), seenRaw \cup {Head(rs).url})
dedupAlsoEmpty(rs) == dedupKeepingEmpty(rs, {})
dedupByUrl(rs) == dedupFrom(rs, {})

\* part_001:176
seenUrlsOf(log) == {log[i].url : i \in 1..Len(log)}

\* part_001:209: log.find((e) => e.url === url)
findEntryLast(log, url) ==
    log[CHOOSE i \in 1..Len(log) :
            log[i].url = url /\ \A j \in (i + 1)..Len(log) : log[j].url # url]
findEntry(log, url) ==
    log[CHOOSE i \in 1..Len(log) : log[i].url = url /\ \A j \in 1..(i - 1) : log[j].url # url]

\* part_001:210-212: Math.floor((Date.now() - new Date(date).getTime()) / 86_400_000)
seenDaysAgo(date) == (NowMs - DateToMs(date)) \div MS_PER_DAY

\* part_001:207-226. company, has_salary, ghost_preflag and age_days are
\* functions of the listing's own title, snippet and age and are left out.
toDiscoveryResult(r, log) ==
    LET alreadySeen == r.url \in seenUrlsOf(log)
    IN  [url |-> r.url, title |-> r.title, site |-> r.site,
         already_seen |-> alreadySeen,
         seen_days_ago |-> IF alreadySeen THEN Some(seenDaysAgo(findEntry(log, r.url).date))
                           ELSE None]

buildResults(rs, log) ==
    LET unique == dedupByUrl(rs)
    IN  [i \in 1..Len(unique) |-> toDiscoveryResult(unique[i], log)]

\* server.ts:52-59: the error GET /api/scout answers with before it calls
\* discoverJobs, or None.
scoutConfigErrorMissingOnly(sitesOpt, keywordsOpt) ==
    IF sitesOpt = None \/ sitesOpt[1] = <<>> THEN Some("search_sites")
    ELSE IF keywordsOpt = None THEN Some("role_keywords")
    ELSE None
scoutConfigError(sitesOpt, keywordsOpt) ==
    IF sitesOpt = None \/ sitesOpt[1] = <<>> THEN Some("search_sites")
    ELSE IF keywordsOpt = None \/ keywordsOpt[1] = <<>> THEN Some("role_keywords")
    ELSE None

\* part_001:194-197: after a failed adapter the loop goes on with the next site.
siteAfterFailureAbort(i) == MaxSites + 2
siteAfterFailure(i) == i + 1

\* ---- the inputs ----

SITE_MARKUP_URL == <<"h", "t", "t", "p", "s", ":", "/", "/", "w", "w", "w", ".", "j", "u", "s", "t", "j", "o", "i", "n", ".", "i", "t", "/">>

SITE_OTHER == <<"p", "r", "a", "c", "u", "j", ".", "p", "l">>

SiteIds == {NOFLUFFJOBS, SITE_MARKUP_URL, SITE_OTHER}

SiteLists == UNION {[1..n -> SiteIds] : n \in 0..MaxSites}

KeywordLists == {<<>>, <<KEY_QA>>}

\* Logged dates: yesterday (day 0), today (day 1), tomorrow (day 2).
LogDates == {0, 1, 2}

LogEntries == [url : URLs, date : LogDates]

LogFiles ==
    {[state |-> st, entries |-> <<>>] : st \in {"missing", "unreadable", "garbage", "object"}}
    \cup {[state |-> "list", entries |-> es] :
              es \in UNION {[1..n -> LogEntries] : n \in 0..MaxLog}}

SampleLogFile == [state |-> "list", entries |-> <<[url |-> "u1", date |-> 0]>>]

\* Many site lists against one history, or every history against one site.
DiscInputs ==
    \/ /\ logFile = SampleLogFile
       /\ \/ /\ caller = "scout"
             /\ reqSites \in {None} \cup {Some(l) : l \in SiteLists}
             /\ reqKeywords \in {None} \cup {Some(k) : k \in KeywordLists}
          \/ /\ caller = "direct"
             /\ reqSites \in {Some(l) : l \in SiteLists}
             /\ reqKeywords \in {Some(k) : k \in KeywordLists}
    \/ /\ logFile \in LogFiles
       /\ caller \in {"scout", "direct"}
       /\ reqSites = Some(<<SITE_OTHER>>)
       /\ reqKeywords = Some(<<KEY_QA>>)

Init ==
    /\ RetryIdle
    /\ FilterIdle
    /\ AuxIdle
    /\ DiscInputs
    /\ dpc = "idle"
    /\ dargs = None
    /\ idx = 0
    /\ dlog = <<>>
    /\ logReads = 0
    /\ raw = <<>>
    /\ calls = <<>>
    /\ elapsed = 0
    /\ dreturn = None
    /\ response = None

Returned(v) == Some([thrown |-> FALSE, value |-> v])
Thrown == Some([thrown |-> TRUE, value |-> <<>>])

\* How GET /api/scout answers once discoverJobs has settled (server.ts:60-64).
scoutResponse(settled) ==
    IF caller # "scout" THEN None
    ELSE IF settled[1].thrown THEN Some([status |-> 500, error |-> "error", body |-> <<>>])
    ELSE Some([status |-> 200, error |-> "", body |-> settled[1].value])

\* part_001:175-176, 208-209: `log` and `seenUrls` are bound once, at entry;
\* the map reads them and not the file.
historyAtLive(snapshot, file) == loadLog(file).entries
historyAt(snapshot, file) == snapshot

\* part_001:180: `for (const rawSite of sites)` visits the list in index order.
siteAtReversed(sites, i) == sites[Len(sites) + 1 - i]
siteAt(sites, i) == sites[i]

\* The loop head at site i with `rs` collected (part_001:180): the adapter of
\* the next site is invoked, or the loop is over and the results are built
\* and returned (part_001:199-226).
LoopFrom(i, rs, log, sites, cs) ==
    IF i <= Len(sites)
    THEN /\ dpc' = "fetch"
         /\ idx' = i
         /\ calls' = Append(cs, [site |-> normalizeSite(siteAt(sites, i)),
                                 adapter |-> adapterFor(normalizeSite(siteAt(sites, i))),
                                 state |-> "pending", listings |-> <<>>])
         /\ dreturn' = None
         /\ response' = None
    ELSE /\ dpc' = "done"
         /\ idx' = i
         /\ calls' = cs
         /\ dreturn' = Returned(buildResults(rs, historyAt(log, logFile)))
         /\ response' = scoutResponse(Returned(buildResults(rs, historyAt(log, logFile))))

\* discoverJobs(keywords, sites) from its entry to its first await
\* (part_001:174-185).
EnterDiscover(keywords, sites) ==
    LET loaded == loadLog(logFile) IN
    /\ dargs' = Some([keywords |-> keywords, sites |-> sites])
    /\ logReads' = logReads + 1
    /\ logFile' = fileAfterLoad(logFile)
    /\ IF loaded.thrown \/ ~loaded.isArray
       THEN \* loadLog throws, or log.map is not a function (part_001:175-176)
            /\ dpc' = "done"
            /\ dreturn' = Thrown
            /\ response' = scoutResponse(Thrown)
            /\ UNCHANGED <<idx, dlog, calls>>
       ELSE /\ dlog' = loaded.entries
            /\ LoopFrom(1, <<>>, loaded.entries, sites, <<>>)
    /\ UNCHANGED <<raw, elapsed>>

\* GET /api/scout (server.ts:49-65)
Scout ==
    /\ dpc = "idle"
    /\ caller = "scout"
    /\ IF scoutConfigError(reqSites, reqKeywords) # None
       THEN /\ response' = Some([status |-> 400,
                                 error |-> scoutConfigError(reqSites, reqKeywords)[1],
                                 body |-> <<>>])
            /\ dpc' = "done"
            /\ UNCHANGED <<logFile, dargs, idx, dlog, logReads, raw, calls, elapsed, dreturn>>
       ELSE EnterDiscover(reqKeywords[1], reqSites[1])
    /\ UNCHANGED <<caller, reqSites, reqKeywords, retryVars, filterVars, auxVars>>

\* A call of the exported discoverJobs with the given lists.
DirectCall ==
    /\ dpc = "idle"
    /\ caller = "direct"
    /\ EnterDiscover(reqKeywords[1], reqSites[1])
    /\ UNCHANGED <<caller, reqSites, reqKeywords, retryVars, filterVars, auxVars>>

\* The adapter of site idx resolves: its listings are pushed and the pause
\* starts (part_001:191-193).
AdapterReturns ==
    /\ dpc = "fetch"
    /\ \E urls \in adapterLists(calls[idx].adapter, dargs[1].keywords) :
          LET got == rawResults(idx, calls[idx].site, urls) IN
          /\ raw' = raw \o got
          /\ calls' = [calls EXCEPT ![idx].state = "ok", ![idx].listings = got]
    /\ dpc' = "pause"
    /\ UNCHANGED <<caller, reqSites, reqKeywords, logFile, dargs, idx, dlog, logReads,
                   elapsed, dreturn, response, retryVars, filterVars, auxVars>>

\* The adapter of site idx rejects: the catch block logs a warning and the
\* loop goes on without a pause (part_001:194-197).
AdapterFails ==
    /\ dpc = "fetch"
    /\ canFail(calls[idx].adapter)
    /\ LoopFrom(siteAfterFailure(idx), raw, dlog, dargs[1].sites,
                [calls EXCEPT ![idx].state = "failed"])
    /\ UNCHANGED <<caller, reqSites, reqKeywords, logFile, dargs, dlog, logReads, raw,
                   elapsed, retryVars, filterVars, auxVars>>

\* The 600 ms timer fires (part_001:193).
PauseEnds ==
    /\ dpc = "pause"
    /\ elapsed' = elapsed + PAUSE_MS
    /\ LoopFrom(idx + 1, raw, dlog, dargs[1].sites, calls)
    /\ UNCHANGED <<caller, reqSites, reqKeywords, logFile, dargs, dlog, logReads, raw,
                   retryVars, filterVars, auxVars>>

Next == Scout \/ DirectCall \/ AdapterReturns \/ AdapterFails \/ PauseEnds

Spec == Init /\ [][Next]_vars

\* ---- what a run collected and returned ----

HasReturned == dreturn # None /\ ~dreturn[1].thrown
Results == dreturn[1].value

\* The listings the adapters resolved with, site after site, in order.
RECURSIVE collectedFrom(_)
collectedFrom(cs) ==
    IF cs = <<>> THEN <<>>
    ELSE (IF Head(cs).state = "ok" THEN Head(cs).listings ELSE <<>>) \o collectedFrom(Tail(cs))

Collected == collectedFrom(calls)

FirstIndex(rs, url) ==
    CHOOSE k \in 1..Len(rs) : rs[k].url = url /\ \A j \in 1..(k - 1) : rs[j].url # url

UrlsOf(rs) == {rs[k].url : k \in 1..Len(rs)}

\* C1: discoverJobs returns exactly one result per distinct URL collected
\* across the sites, each result being the first listing collected with that
\* URL, and the results are in the order in which the URLs were first
\* collected (site order, then order within the site).
C1_OnePerUrlFirstSeen ==
    HasReturned =>
        /\ \A i, j \in 1..Len(Results) : i # j => Results[i].url # Results[j].url
        /\ UrlsOf(Results) = UrlsOf(Collected)
        /\ Len(Results) = Cardinality(UrlsOf(Collected))
        /\ \A i \in 1..Len(Results) :
              LET k == FirstIndex(Collected, Results[i].url) IN
              /\ Results[i].title = Collected[k].title
              /\ Results[i].site = Collected[k].site
        /\ \A i, j \in 1..Len(Results) :
              i < j => FirstIndex(Collected, Results[i].url) < FirstIndex(Collected, Results[j].url)

C1_Witness ==
    /\ HasReturned
    /\ Len(calls) = 2
    /\ Len(Collected) = 4
    /\ Collected[1].url = "u2"
    /\ Collected[2].url = "u2"
    /\ Collected[3].url = "u1"
    /\ Collected[4].url = "u2"
    /\ Len(Results) = 2
    /\ Results[1].url = "u2"
    /\ Results[2].url = "u1"

\* The whole days from a logged date to now, a date later than now counting
\* as zero days.
WholeDaysSince(date) ==
    IF DateToMs(date) >= NowMs THEN 0 ELSE (NowMs - DateToMs(date)) \div MS_PER_DAY

\* C2: every collected listing whose URL is in the persisted history is kept
\* in the results, with already_seen true and seen_days_ago equal to the whole
\* days between the history entry's date and now, never negative, whatever
\* date the entry holds (a date later than now included).
C2_SeenDaysNonNegative ==
    (HasReturned /\ logFile.state = "list") =>
        /\ \A u \in UrlsOf(Collected) \cap seenUrlsOf(logFile.entries) : u \in UrlsOf(Results)
        /\ \A i \in 1..Len(Results) :
              Results[i].url \in seenUrlsOf(logFile.entries) =>
                  /\ Results[i].already_seen
                  /\ Results[i].seen_days_ago # None
                  /\ Results[i].seen_days_ago[1] >= 0
                  /\ \E k \in 1..Len(logFile.entries) :
                        /\ logFile.entries[k].url = Results[i].url
                        /\ Results[i].seen_days_ago[1] = WholeDaysSince(logFile.entries[k].date)

\* C5: a site whose adapter failed contributes no listing, discoverJobs does
\* not fail, the adapter of the next site is invoked at once, and when
\* discoverJobs returns every site's adapter has been invoked and every
\* listing of every adapter that succeeded, before or after the failing one,
\* is among the results.
C5_FailureIsolated ==
    \A i \in 1..Len(calls) :
        calls[i].state = "failed" =>
            /\ \A k \in 1..Len(raw) : raw[k].title[1] # i
            /\ dreturn # Thrown
            /\ i < Len(dargs[1].sites) => Len(calls) > i
            /\ dpc = "done" =>
                  /\ HasReturned
                  /\ Len(calls) = Len(dargs[1].sites)
                  /\ \A k \in 1..Len(Results) : Results[k].title[1] # i
                  /\ \A j \in 1..Len(calls) :
                        calls[j].state = "ok" =>
                            \A l \in 1..Len(calls[j].listings) :
                                calls[j].listings[l].url \in UrlsOf(Results)

C5_Witness ==
    /\ HasReturned
    /\ Len(calls) = 2
    /\ calls[1].state = "failed"
    /\ calls[2].state = "ok"
    /\ Len(calls[2].listings) = 2
    /\ Len(Results) = 2

ScoutConfigIncomplete ==
    \/ reqSites = None
    \/ reqSites[1] = <<>>
    \/ reqKeywords = None
    \/ reqKeywords[1] = <<>>

HistoryUnusable == logFile.state \in {"missing", "unreadable", "garbage", "object"}

\* C11 as stated: when the persisted history is missing, unreadable, not JSON
\* or JSON that is not a list, discoverJobs does not fail: it returns the
\* listings it collected, each with already_seen = false and seen_days_ago
\* = null.
C11_HistoryFailureIsEmpty ==
    (dargs # None /\ HistoryUnusable) =>
        /\ dreturn # Thrown
        /\ dpc = "done" =>
              /\ HasReturned
              /\ UrlsOf(Results) = UrlsOf(Collected)
              /\ \A i \in 1..Len(Results) :
                    /\ ~Results[i].already_seen
                    /\ Results[i].seen_days_ago = None

Pending == {i \in 1..Len(calls) : calls[i].state = "pending"}

\* C13: within one run the sites are processed one at a time in the order of
\* the configured list: the i-th adapter invocation is that of the i-th site,
\* every invocation before the latest has completed (returned or failed), and
\* at most one adapter request is in flight at any moment.
C13_OneAtATime ==
    dargs # None =>
        /\ Len(calls) <= Len(dargs[1].sites)
        /\ \A i \in 1..Len(calls) :
              /\ calls[i].site = normalizeSite(dargs[1].sites[i])
              /\ i < Len(calls) => calls[i].state \in {"ok", "failed"}
        /\ Cardinality(Pending) <= 1
        /\ Pending # {} <=> dpc = "fetch"

C13_Witness ==
    /\ Len(calls) = 2
    /\ calls[1].site = NOFLUFFJOBS
    /\ calls[1].state = "ok"
    /\ calls[2].site = SITE_OTHER
    /\ calls[2].state = "pending"

\* C14 as stated: a pause of 600 ms elapses between the adapter invocations
\* of every two consecutive sites, whether the earlier adapter succeeded or
\* failed: by the time the i-th adapter is invoked, i - 1 pauses have elapsed.
C14_PauseBetweenSites ==
    dpc = "fetch" => elapsed = (Len(calls) - 1) * PAUSE_MS

\* The history holds its entries in the order logApplication appended them
\* (appLog.ts:21): the entry logged first for a url is the first one with it.
FirstLogged(log, url) ==
    CHOOSE k \in 1..Len(log) : log[k].url = url /\ \A j \in 1..(k - 1) : log[j].url # url

DatesAscend(log) == \A j, k \in 1..Len(log) : j < k => log[j].date <= log[k].date

\* C24: when the history holds several entries with the same URL,
\* discoverJobs computes seen_days_ago from the entry that was logged first:
\* the value is the number of days since the posting was first seen (with
\* the dates in logging order, since the earliest date logged for the URL),
\* not since it was last analysed.
C24_SeenSinceFirstLogged ==
    HasReturned =>
        \A i \in 1..Len(Results) :
            Results[i].already_seen =>
                LET first == dlog[FirstLogged(dlog, Results[i].url)]
                IN  /\ Results[i].seen_days_ago
                          = Some((NowMs - DateToMs(first.date)) \div MS_PER_DAY)
                    /\ DatesAscend(dlog) =>
                          \A k \in 1..Len(dlog) :
                              dlog[k].url = Results[i].url => first.date <= dlog[k].date

C24_Witness ==
    /\ HasReturned
    /\ dlog = << [url |-> "u1", date |-> 0], [url |-> "u1", date |-> 1] >>
    /\ \E i \in 1..Len(Results) :
          /\ Results[i].url = "u1"
          /\ Results[i].already_seen
          /\ Results[i].seen_days_ago = Some(1)

\* ---- the end of discoverJobs over whatever `raw` holds ----

\* discoverJobs(['QA'], ['pracuj.pl']) at its pause, the adapter having
\* resolved. RawResult.url is a string: the listings here include ones with
\* an empty url, which the filter of part_001:202 tests for itself.
CrossRefInit ==
    /\ RetryIdle
    /\ FilterIdle
    /\ AuxIdle
    /\ caller = "direct"
    /\ reqSites = Some(<<SITE_OTHER>>)
    /\ reqKeywords = Some(<<KEY_QA>>)
    /\ dlog \in {<<>>, SampleLogFile.entries,
                 << [url |-> "u2", date |-> 1], [url |-> "u1", date |-> 0] >>}
    /\ logFile = [state |-> "list", entries |-> dlog]
    /\ dpc = "pause"
    /\ dargs = Some([keywords |-> <<KEY_QA>>, sites |-> <<SITE_OTHER>>])
    /\ idx = 1
    /\ logReads = 1
    /\ \E urls \in UNION {[1..n -> URLs \cup {""}] : n \in 0..(MaxPerSite + 1)} :
          raw = rawResults(1, SITE_OTHER, urls)
    /\ calls = << [site |-> SITE_OTHER, adapter |-> "search", state |-> "ok",
                   listings |-> raw] >>
    /\ elapsed = 0
    /\ dreturn = None
    /\ response = None

CrossRefSpec == CrossRefInit /\ [][PauseEnds]_vars

\* C25: in every DiscoveryResult returned by discoverJobs, seen_days_ago is
\* non-null exactly when already_seen is true, and every result has a
\* non-empty url: the raw listings with an empty url are dropped before the
\* history is consulted, the others are kept.
C25_SeenDaysIffSeenAndUrl ==
    HasReturned =>
        /\ \A i \in 1..Len(Results) :
              /\ (Results[i].seen_days_ago # None) <=> Results[i].already_seen
              /\ Results[i].already_seen \in BOOLEAN
              /\ Results[i].url # ""
        /\ UrlsOf(Results) = UrlsOf(raw) \ {""}

C25_Witness ==
    /\ HasReturned
    /\ Len(raw) = 3
    /\ raw[1].url = ""
    /\ raw[2].url = "u2"
    /\ raw[3].url = "u1"
    /\ dlog = SampleLogFile.entries
    /\ Len(Results) = 2
    /\ ~Results[1].already_seen
    /\ Results[1].seen_days_ago = None
    /\ Results[2].already_seen
    /\ Results[2].seen_days_ago # None

(***************************************************************************)
(* callWithRetry                                                           *)
(***************************************************************************)

\* Length of the script of the wrapped call (a bound of the model).
ScriptLen == 4

RETRY_DELAYS_MS == <<30000, 60000, 120000>>

\* HTTP statuses an APIError can carry here: 529 is "overloaded".
OVERLOADED_STATUS == 529
ErrStatuses == {OVERLOADED_STATUS, 500}

\* What one invocation of the wrapped call does: resolve with a message, or
\* reject with an error (an APIError with a status, or any other error, which
\* may carry a status field too).
OkOutcome == [ok |-> TRUE, api |-> FALSE, status |-> 200]
ErrOutcomes == [ok : {FALSE}, api : BOOLEAN, status : ErrStatuses]
CallOutcomes == {OkOutcome} \cup ErrOutcomes

\* The outcome of the n-th invocation, stamped with n so that the error of one
\* attempt is told from the error of another.
OutcomeAt(n) ==
    LET o == IF n <= Len(script) THEN script[n] ELSE script[Len(script)]
    IN  [ok |-> o.ok, api |-> o.api, status |-> o.status, at |-> n]

UnreachableError == [ok |-> FALSE, api |-> FALSE, status |-> 0, at |-> 0]

\* claude.ts:70
isOverloaded(err) == err.api /\ err.status = OVERLOADED_STATUS

\* claude.ts:71, the condition under which the failure is retried
ShouldRetryAlways(err, a) == isOverloaded(err)
ShouldRetryAny(err, a) == a < Len(RETRY_DELAYS_MS)
ShouldRetry(err, a) == isOverloaded(err) /\ a < Len(RETRY_DELAYS_MS)

\* claude.ts:72, RETRY_DELAYS_MS[attempt] (0-based in the source); an index
\* past the end reads undefined, which setTimeout takes as 0.
DelayFirst(a) == RETRY_DELAYS_MS[1]
DelayFor(a) == IF a + 1 \in DOMAIN RETRY_DELAYS_MS THEN RETRY_DELAYS_MS[a + 1] ELSE 0

RetryInit ==
    /\ FilterIdle
    /\ DiscIdle
    /\ AuxIdle
    /\ script \in [1..ScriptLen -> CallOutcomes]
    /\ rpc = "try"
    /\ attempt = 0
    /\ ncalls = 0
    /\ waits = <<>>
    /\ rresult = None

\* One iteration of the loop body up to its await/return/throw
\* (claude.ts:66-77), or the throw after the loop (claude.ts:80).
RetryAttempt ==
    /\ rpc = "try"
    /\ IF attempt <= Len(RETRY_DELAYS_MS)
       THEN LET o == OutcomeAt(ncalls + 1) IN
            /\ ncalls' = ncalls + 1
            /\ IF o.ok
               THEN rpc' = "returned" /\ rresult' = Some(o)
               ELSE IF ShouldRetry(o, attempt)
                    THEN rpc' = "wait" /\ rresult' = rresult
                    ELSE rpc' = "thrown" /\ rresult' = Some(o)
       ELSE /\ rpc' = "thrown"
            /\ rresult' = Some(UnreachableError)
            /\ ncalls' = ncalls
    /\ UNCHANGED <<script, attempt, waits, filterVars, discVars, auxVars>>

\* The timer of claude.ts:74 fires and the loop increments `attempt`.
RetryWait ==
    /\ rpc = "wait"
    /\ waits' = Append(waits, DelayFor(attempt))
    /\ attempt' = attempt + 1
    /\ rpc' = "try"
    /\ UNCHANGED <<script, ncalls, rresult, filterVars, discVars, auxVars>>

RetryNext == RetryAttempt \/ RetryWait

RetrySpec == RetryInit /\ [][RetryNext]_vars /\ WF_vars(RetryNext)

RetryDone == rpc \in {"returned", "thrown"}

\* Number of leading overload failures of a script.
RECURSIVE LeadingOverloads(_)
LeadingOverloads(s) ==
    IF s # <<>> /\ ~Head(s).ok /\ isOverloaded(Head(s))
    THEN 1 + LeadingOverloads(Tail(s))
    ELSE 0

\* The script fails with the overload condition k times and then succeeds.
OverloadsThenOk(k) ==
    /\ LeadingOverloads(script) = k
    /\ k < Len(script)
    /\ script[k + 1].ok

\* C7: a call that fails with the overload condition k times (0 <= k <= 3) and
\* then succeeds is never turned into a failure, and when callWithRetry returns
\* it returns that success after exactly k+1 attempts, having slept the first k
\* delays of 30s, 60s, 120s in schedule order (90s in total for k = 2).
C7_RetryThenSuccess ==
    \A k \in 0..Len(RETRY_DELAYS_MS) :
        OverloadsThenOk(k) =>
            /\ rpc # "thrown"
            /\ ncalls <= k + 1
            /\ rpc = "returned" =>
                /\ ncalls = k + 1
                /\ rresult = Some(OutcomeAt(k + 1))
                /\ waits = SubSeq(RETRY_DELAYS_MS, 1, k)
                /\ SumSeq(waits) = SumSeq(SubSeq(RETRY_DELAYS_MS, 1, k))
                /\ (k = 2 => SumSeq(waits) = 90000)

C7_Witness ==
    /\ OverloadsThenOk(2)
    /\ rpc = "returned"
    /\ ncalls = 3
    /\ waits = <<30000, 60000>>

\* C8: a failure other than the overload condition, on any attempt, is
\* propagated at once: it is the last invocation, callWithRetry has thrown that
\* very error, and no delay follows it; a call that always fails with a
\* non-overload error fails on the first attempt with zero delay.
C8_OtherFailurePropagates ==
    /\ \A n \in 1..ncalls :
          LET o == OutcomeAt(n) IN
          (~o.ok /\ ~isOverloaded(o)) =>
              /\ n = ncalls
              /\ rpc = "thrown"
              /\ rresult = Some(o)
              /\ Len(waits) = n - 1
    /\ (~script[1].ok /\ ~isOverloaded(script[1])) => (ncalls <= 1 /\ waits = <<>>)

C8_Witness ==
    /\ ncalls = 3
    /\ ~OutcomeAt(3).ok
    /\ ~isOverloaded(OutcomeAt(3))
    /\ rpc = "thrown"
    /\ waits = <<30000, 60000>>

AllOverloaded == \A n \in 1..(Len(RETRY_DELAYS_MS) + 1) : ~script[n].ok /\ isOverloaded(script[n])

C9_Bounded ==
    /\ ncalls <= Len(RETRY_DELAYS_MS) + 1
    /\ ncalls <= 4
    /\ Len(waits) <= 3
    /\ (AllOverloaded /\ RetryDone) =>
          /\ rpc = "thrown"
          /\ ncalls = 4
          /\ waits = <<30000, 60000, 120000>>
          /\ rresult = Some(OutcomeAt(4))

\* C9: callWithRetry never makes more than four attempts; when every attempt
\* fails with the overload condition it retries exactly three times, after
\* waits of 30s, 60s and 120s, and then throws the failure of the fourth
\* attempt; and it always terminates (each wrapped call terminating).
C9_FourAttemptsAndTerminates == []C9_Bounded /\ <>RetryDone

C9_Witness ==
    /\ AllOverloaded
    /\ rpc = "thrown"
    /\ ncalls = 4
    /\ waits = <<30000, 60000, 120000>>

(***************************************************************************)
(* searchViaSearXNG                                                        *)
(***************************************************************************)

\* Most results one instance answers with (a bound of the model).
MaxFound == 11

\* part_001:144-148
SEARXNG_INSTANCES ==
    <<"https://searx.be", "https://searxng.site", "https://darmarit.org/searx">>

\* part_001:161, results.slice(0, 10)
SEARCH_CAP == 10

\* Array.prototype.join(' ')
RECURSIVE joinWords(_)
joinWords(ks) ==
    IF ks = <<>> THEN <<>>
    ELSE IF Len(ks) = 1 THEN ks[1]
    ELSE ks[1] \o <<" ">> \o joinWords(Tail(ks))

\* part_001:151
searchQuery(site, keywords) ==
    <<"s", "i", "t", "e", ":">> \o site \o <<" ">> \o joinWords(keywords)

\* part_001:154-158: the request sent to the i-th instance
searchRequest(i, site, keywords) ==
    [instance |-> SEARXNG_INSTANCES[i], path |-> "/search", q |-> searchQuery(site, keywords)]

\* The `results` of a response body holding n items. An item is an object
\* with a url (<<>>: missing or empty) or, in a malformed body, null.
foundList(n, shape) ==
    [k \in 1..n |->
        [isNull |-> shape = "nullitem" /\ k = n,
         url |-> IF shape = "allblank" \/ (shape = "blankfirst" /\ k = 1) THEN <<>> ELSE <<k>>,
         title |-> k]]

FoundCounts == {0, 1, SEARCH_CAP, MaxFound}

\* How a request settles. It rejects (timeout, status outside 2xx), or it
\* resolves with a body: text that is not JSON or an object without
\* `results` ("text"), `results` that is a non-empty string ("notarray"),
\* or a list of items.
FailOutcomes == {[kind |-> k, results |-> <<>>] : k \in {"timeout", "status"}}

BodyOutcomes ==
    {[kind |-> "text", results |-> <<>>], [kind |-> "notarray", results |-> <<>>]}
    \cup {[kind |-> "list", results |-> foundList(n, sh)] :
              n \in FoundCounts, sh \in {"full", "blankfirst", "allblank", "nullitem"}}

\* part_001:160
hasResultsOrNone(o) == o.kind \in {"notarray", "list"}
hasResults(o) == o.kind = "notarray" \/ (o.kind = "list" /\ Len(o.results) > 0)

\* part_001:161-166: slice, map (which throws on a string and on a null
\* item), filter. None when it throws.
searchListings(o, site) ==
    LET sliced == SubSeq(o.results, 1,
                         IF Len(o.results) < SEARCH_CAP THEN Len(o.results) ELSE SEARCH_CAP)
        mapped == [k \in 1..Len(sliced) |->
                      [url |-> sliced[k].url, title |-> sliced[k].title, site |-> site]]
    IN  IF o.kind = "notarray" \/ \E k \in 1..Len(sliced) : sliced[k].isNull
        THEN None
        ELSE Some(SelectSeq(mapped, LAMBDA r : r.url # <<>>))

\* One iteration of the loop body (part_001:153-168): Some(list) when it
\* returns, None when the loop goes on with the next instance.
instanceYield(o, site) ==
    IF o.kind \in {"timeout", "status"} THEN None
    ELSE IF hasResults(o) THEN searchListings(o, site)
    ELSE None

SearchInit ==
    /\ RetryIdle
    /\ FilterIdle
    /\ DiscIdle
    /\ PeerIdle
    /\ FeedIdle
    /\ AnalyzeIdle
    /\ sargs \in {Some([site |-> SITE_OTHER, keywords |-> ks]) : ks \in {<<KEY_QA>>, <<KEY_QA, KEY_DEV>>}}
    /\ spc = "call"
    /\ sinst = 0
    /\ squeried = <<>>
    /\ sanswers = <<>>
    /\ sreturn = None

\* searchViaSearXNG(site, keywords) up to its first await (part_001:150-154).
SearchCall ==
    /\ spc = "call"
    /\ spc' = "request"
    /\ sinst' = 1
    /\ squeried' = <<searchRequest(1, sargs[1].site, sargs[1].keywords)>>
    /\ UNCHANGED <<sargs, sanswers, sreturn, peer, feedVars, analyzeVars, retryVars, filterVars, discVars>>

\* The request to instance sinst has settled as o: the function returns, or
\* requests the next instance, or returns [] after the last one.
SearchSettle(o) ==
    LET y == instanceYield(o, sargs[1].site) IN
    /\ sanswers' = Append(sanswers, o)
    /\ IF y # None
       THEN /\ spc' = "returned"
            /\ sreturn' = y
            /\ UNCHANGED <<sinst, squeried>>
       ELSE IF sinst < Len(SEARXNG_INSTANCES)
            THEN /\ spc' = "request"
                 /\ sinst' = sinst + 1
                 /\ squeried' = Append(squeried,
                        searchRequest(sinst + 1, sargs[1].site, sargs[1].keywords))
                 /\ UNCHANGED sreturn
            ELSE /\ spc' = "returned"
                 /\ sreturn' = Some(<<>>)
                 /\ UNCHANGED <<sinst, squeried>>
    /\ UNCHANGED <<sargs, peer, feedVars, analyzeVars, retryVars, filterVars, discVars>>

InstanceFails ==
    /\ spc = "request"
    /\ \E o \in FailOutcomes : SearchSettle(o)

InstanceAnswers ==
    /\ spc = "request"
    /\ \E o \in BodyOutcomes : SearchSettle(o)

SearchNext == SearchCall \/ InstanceFails \/ InstanceAnswers

SearchSpec == SearchInit /\ [][SearchNext]_vars

\* An answer that holds at least one result and can be read: a list with one
\* or more items whose first ten are all objects.
Usable(o) ==
    /\ o.kind = "list"
    /\ Len(o.results) > 0
    /\ \A k \in 1..Len(o.results) : k <= 10 => ~o.results[k].isNull

\* The urls of the first ten items of an answer, the empty ones left out.
FirstTenUrls(o) ==
    LET n == IF Len(o.results) < 10 THEN Len(o.results) ELSE 10
    IN  SelectSeq([k \in 1..n |-> o.results[k].url], LAMBDA u : u # <<>>)

\* C12: searchViaSearXNG queries the instances in list order; it goes on to
\* the next instance whenever the current one fails or returns no result;
\* it returns the listings of the first instance that returns at least one
\* result and queries no later instance; it returns at most 10 listings; and
\* when every instance has been tried it returns the empty list, never
\* failing.
C12_FirstUsableInstance ==
    /\ spc \in {"call", "request", "returned"}
    /\ Len(squeried) <= Len(SEARXNG_INSTANCES)
    /\ \A i \in 1..Len(squeried) : squeried[i].instance = SEARXNG_INSTANCES[i]
    /\ \A i \in 1..Len(sanswers) :
          IF Usable(sanswers[i])
          THEN /\ spc = "returned"
               /\ Len(squeried) = i
               /\ Len(sanswers) = i
               /\ [k \in 1..Len(sreturn[1]) |-> sreturn[1][k].url] = FirstTenUrls(sanswers[i])
          ELSE i < Len(SEARXNG_INSTANCES) => Len(squeried) > i
    /\ spc = "returned" =>
          /\ sreturn # None
          /\ Len(sreturn[1]) <= 10
          /\ (\A i \in 1..Len(sanswers) : ~Usable(sanswers[i])) =>
                /\ Len(squeried) = Len(SEARXNG_INSTANCES)
                /\ sreturn[1] = <<>>

C12_Witness ==
    /\ spc = "returned"
    /\ Len(squeried) = 3
    /\ sanswers[1].kind = "timeout"
    /\ sanswers[2].kind = "list"
    /\ sanswers[2].results = <<>>
    /\ Len(sanswers[3].results) > 10
    /\ Len(sreturn[1]) = 10

(***************************************************************************)
(* One server process: a GET /api/scout request, a second one served at    *)
(* the same time, and the tail of a POST /api/analyze request              *)
(* (server.ts:108-109), interleaved at their awaits.                       *)
(***************************************************************************)

\* server.ts:88: today as YYYY-MM-DD
Today == NowMs \div MS_PER_DAY

\* appLog.ts:19-24. When loadLog throws, or gives a value without push,
\* logApplication throws before it writes.
logApplicationThrows(file) == loadLog(file).thrown \/ ~loadLog(file).isArray
logApplicationFresh(file, entry) ==
    IF logApplicationThrows(file) THEN file
    ELSE [state |-> "list", entries |-> <<entry>>]
logApplication(file, entry) ==
    IF logApplicationThrows(file) THEN file
    ELSE [state |-> "list", entries |-> Append(loadLog(file).entries, entry)]

FullConfig ==
    BuildConfig([min_match_score |-> Some(60), max_ghost_score |-> Some(50),
                 max_age_days |-> Some(10), require_salary |-> Some(TRUE),
                 work_mode |-> Some("remote"), role_keywords |-> Some(<<KEY_QA, KEY_DEV>>)],
                FilterFields)

ServerInit ==
    /\ RetryIdle
    /\ SearchIdle
    /\ FeedIdle
    /\ AnalyzeIdle
    /\ caller = "scout"
    /\ reqSites \in {Some(<<SITE_OTHER>>), Some(<<NOFLUFFJOBS, SITE_OTHER>>)}
    /\ reqKeywords = Some(<<KEY_QA>>)
    /\ logFile \in {[state |-> "missing", entries |-> <<>>],
                    [state |-> "unreadable", entries |-> <<>>],
                    SampleLogFile}
    /\ dpc = "idle"
    /\ dargs = None
    /\ idx = 0
    /\ dlog = <<>>
    /\ logReads = 0
    /\ raw = <<>>
    /\ calls = <<>>
    /\ elapsed = 0
    /\ dreturn = None
    /\ response = None
    /\ peer = [pc |-> "idle", log |-> <<>>, reads |-> 0, raw |-> <<>>, settled |-> None]
    /\ fconfig \in {<<>>, FullConfig}
    /\ fresult = [match_score |-> 60, ghost_score |-> 50]
    /\ fjd = JD_REMOTE
    /\ fage = None
    /\ fchecks = <<>>
    /\ fpc = "call"

ownVars == <<caller, reqSites, reqKeywords, dpc, dargs, idx, dlog, logReads, raw, calls,
             elapsed, dreturn, response>>

\* The second request enters discoverJobs(['QA'], ['pracuj.pl'])
\* (part_001:174-189).
PeerEnter ==
    /\ peer.pc = "idle"
    /\ logFile' = fileAfterLoad(logFile)
    /\ peer' = IF loadLog(logFile).thrown \/ ~loadLog(logFile).isArray
               THEN [peer EXCEPT !.pc = "done", !.reads = @ + 1, !.settled = Thrown]
               ELSE [peer EXCEPT !.pc = "fetch", !.reads = @ + 1,
                                 !.log = loadLog(logFile).entries]
    /\ UNCHANGED <<ownVars, searchVars, feedVars, analyzeVars, retryVars, filterVars>>

\* Its adapter resolves (part_001:189-193).
PeerAdapterReturns ==
    /\ peer.pc = "fetch"
    /\ \E urls \in adapterLists(adapterFor(normalizeSite(SITE_OTHER)), <<KEY_QA>>) :
          peer' = [peer EXCEPT !.pc = "pause",
                               !.raw = @ \o rawResults(1, normalizeSite(SITE_OTHER), urls)]
    /\ UNCHANGED <<logFile, ownVars, searchVars, feedVars, analyzeVars, retryVars, filterVars>>

\* Its pause ends, the loop is over and it returns (part_001:193-226).
PeerPauseEnds ==
    /\ peer.pc = "pause"
    /\ peer' = [peer EXCEPT !.pc = "done",
                            !.settled = Returned(buildResults(peer.raw,
                                                              historyAt(peer.log, logFile)))]
    /\ UNCHANGED <<logFile, ownVars, searchVars, feedVars, analyzeVars, retryVars, filterVars>>

\* server.ts:109: the analyze request, its filters evaluated, logs its entry.
LogApplication ==
    /\ fpc = "done"
    /\ \E jd \in URLs :
          logFile' = logApplication(logFile, [url |-> jd, date |-> Today])
    /\ fpc' = IF logApplicationThrows(logFile) THEN "failed" ELSE "logged"
    /\ UNCHANGED <<fconfig, fresult, fjd, fage, fchecks, ownVars, auxVars, retryVars>>

ServerNext ==
    \/ Scout
    \/ AdapterReturns
    \/ AdapterFails
    \/ PauseEnds
    \/ PeerEnter
    \/ PeerAdapterReturns
    \/ PeerPauseEnds
    \/ EvaluateFilters
    \/ LogApplication

ServerSpec == ServerInit /\ [][ServerNext]_vars

PeerReturned == peer.settled # None /\ ~peer.settled[1].thrown

\* The results rs are marked from the history `snapshot` and nothing else.
MarkedFrom(rs, snapshot) ==
    \A i \in 1..Len(rs) :
        /\ rs[i].already_seen <=> rs[i].url \in seenUrlsOf(snapshot)
        /\ rs[i].seen_days_ago # None <=> rs[i].already_seen
        /\ rs[i].already_seen =>
              \E k \in 1..Len(snapshot) :
                  /\ snapshot[k].url = rs[i].url
                  /\ rs[i].seen_days_ago[1] = (NowMs - DateToMs(snapshot[k].date)) \div MS_PER_DAY

C15_Marks ==
    /\ logReads <= 1
    /\ peer.reads <= 1
    /\ calls # <<>> => logReads = 1
    /\ peer.pc \in {"fetch", "pause"} => peer.reads = 1
    /\ HasReturned => MarkedFrom(Results, dlog)
    /\ PeerReturned => MarkedFrom(peer.settled[1].value, peer.log)

C15_Step ==
    /\ logReads' # logReads =>
          /\ calls = <<>>
          /\ logFile.state = "list" => dlog' = logFile.entries
    /\ logReads' = logReads => dlog' = dlog
    /\ peer.reads' # peer.reads =>
          /\ peer.raw = <<>>
          /\ logFile.state = "list" => peer.log' = logFile.entries
    /\ peer.reads' = peer.reads => peer.log' = peer.log
    /\ dreturn # None => dreturn' = dreturn
    /\ peer.settled # None => peer.settled' = peer.settled
    /\ peer' # peer => ownVars' = ownVars
    /\ ownVars' # ownVars => peer' = peer

\* C15: a discoverJobs run reads the persisted history exactly once, before
\* any adapter is invoked, and marks already_seen / seen_days_ago from that
\* snapshot alone: an entry appended to the log while the run is in progress
\* changes no result of the run, and a step of one of two concurrent runs
\* changes nothing of the other.
C15_SnapshotOnce == []C15_Marks /\ [][C15_Step]_vars

C15_Witness ==
    /\ HasReturned
    /\ Len(calls) = 2
    /\ \E i \in 1..Len(Results) :
          /\ Results[i].url = "u2"
          /\ ~Results[i].already_seen
    /\ "u2" \in seenUrlsOf(logFile.entries)
    /\ "u2" \notin seenUrlsOf(dlog)
    /\ PeerReturned
    /\ \E i \in 1..Len(peer.settled[1].value) :
          /\ peer.settled[1].value[i].url = "u2"
          /\ peer.settled[1].value[i].already_seen

LogUntouchedBy ==
    \/ ownVars' # ownVars
    \/ peer' # peer
    \/ fchecks' # fchecks
    \/ (fpc = "call" /\ fpc' = "done")

\* C16: discoverJobs and evaluateFilters leave the persisted log unchanged:
\* every step of a discovery run (the loading of the history, an adapter
\* settling, a pause, the return or the failure) and every filter evaluation
\* leaves the file as it was; the file changes only in a step of
\* logApplication.
C16_LogOnlyRead ==
    [][/\ LogUntouchedBy => logFile' = logFile
       /\ logFile' # logFile => (fpc = "done" /\ fpc' = "logged")]_vars

C16_Witness ==
    /\ HasReturned
    /\ Len(Results) > 0
    /\ PeerReturned
    /\ fpc = "done"
    /\ Len(fchecks) = 6
    /\ logFile.state = "missing"

(***************************************************************************)
(* discoverJobs over the spellings of a site identifier                    *)
(***************************************************************************)

\* A site written with or without scheme, with or without "www.", with or
\* without a trailing slash or a path.
SiteSpellings ==
    LET SiteSchemes == {<<>>, <<"h", "t", "t", "p", ":", "/", "/">>,
                        <<"h", "t", "t", "p", "s", ":", "/", "/">>}
        SitePrefixes == {<<>>, WWW_DOT}
        SiteHosts == {NOFLUFFJOBS, JUSTJOIN, SITE_OTHER}
        SiteSuffixes == {<<>>, <<"/">>, <<"/", "j", "o", "b", "s">>}
    IN  {sc \o pr \o h \o su :
            sc \in SiteSchemes, pr \in SitePrefixes, h \in SiteHosts, su \in SiteSuffixes}

SpellingInit ==
    /\ RetryIdle
    /\ FilterIdle
    /\ AuxIdle
    /\ caller \in {"scout", "direct"}
    /\ reqSites \in {Some(<<sp>>) : sp \in SiteSpellings}
    /\ reqKeywords = Some(<<KEY_QA>>)
    /\ logFile = SampleLogFile
    /\ dpc = "idle"
    /\ dargs = None
    /\ idx = 0
    /\ dlog = <<>>
    /\ logReads = 0
    /\ raw = <<>>
    /\ calls = <<>>
    /\ elapsed = 0
    /\ dreturn = None
    /\ response = None

SpellingSpec == SpellingInit /\ [][Next]_vars

\* The bare host name a spelling stands for: what is left once the scheme,
\* a leading "www." and everything from the first "/" on are taken away.
BareHost(site) ==
    LET seps == {i \in 1..(Len(site) - 2) : SubSeq(site, i, i + 2) = <<":", "/", "/">>}
        a == IF seps = {} THEN site
             ELSE SubSeq(site, (CHOOSE i \in seps : \A j \in seps : i <= j) + 3, Len(site))
        b == IF Len(a) >= 4 /\ SubSeq(a, 1, 4) = <<"w", "w", "w", ".">>
             THEN SubSeq(a, 5, Len(a)) ELSE a
        slashes == {i \in 1..Len(b) : b[i] = "/"}
    IN  IF slashes = {} THEN b
        ELSE SubSeq(b, 1, (CHOOSE i \in slashes : \A j \in slashes : i <= j) - 1)

\* C17 as stated: every configured site is normalised to its bare host name,
\* and the feed adapter is selected iff that is nofluffjobs.com, the
\* embedded-markup adapter iff it is justjoin.it, the meta-search otherwise,
\* so that all spellings of one site select the same adapter.
C17_SpellingsSelectSameAdapter ==
    \A i \in 1..Len(calls) :
        LET host == BareHost(dargs[1].sites[i]) IN
        /\ calls[i].site = host
        /\ calls[i].adapter = "feed" <=> host = NOFLUFFJOBS
        /\ calls[i].adapter = "markup" <=> host = JUSTJOIN
        /\ calls[i].adapter = "search" <=> host \notin {NOFLUFFJOBS, JUSTJOIN}

(***************************************************************************)
(* The feed adapter and the fields discoverJobs derives from a listing     *)
(***************************************************************************)

\* A JavaScript number: an integer, or NaN.
Num(n) == [nan |-> FALSE, val |-> n]
NaN == [nan |-> TRUE, val |-> 0]

numMinus(a, b) == IF a.nan \/ b.nan THEN NaN ELSE Num(a.val - b.val)

\* Math.floor(a / d) for a positive integer d
numFloorDiv(a, d) == IF a.nan THEN NaN ELSE Num(a.val \div d)

\* Math.max(a, b): NaN when either argument is NaN
numMax(a, b) == IF a.nan \/ b.nan THEN NaN ELSE IF a.val >= b.val THEN a ELSE b

\* The text of a date element: empty (no such element), text that Date
\* cannot parse, or a timestamp.
NoDate == [empty |-> TRUE, valid |-> FALSE, ms |-> 0]
BadDate == [empty |-> FALSE, valid |-> FALSE, ms |-> 0]
DateAt(t) == [empty |-> FALSE, valid |-> TRUE, ms |-> t]

\* new Date(dateStr).getTime(): NaN for an invalid date; it does not throw.
dateGetTime(d) == IF d.valid THEN Num(d.ms) ELSE NaN

\* part_001:40-45. No statement of the try block throws, so the catch that
\* returns null is never entered.
rssDateToAgeDays(d) ==
    Some(numMax(Num(0), numFloorDiv(numMinus(Num(NowMs), dateGetTime(d)), MS_PER_DAY)))

WhiteSpace == {" ", "\t", "\n", "\r"}

\* String.prototype.trim
RECURSIVE trimStart(_)
trimStart(s) == IF s # <<>> /\ Head(s) \in WhiteSpace THEN trimStart(Tail(s)) ELSE s

RECURSIVE trimEnd(_)
trimEnd(s) ==
    IF s # <<>> /\ s[Len(s)] \in WhiteSpace THEN trimEnd(SubSeq(s, 1, Len(s) - 1)) ELSE s

trim(s) == trimEnd(trimStart(s))

\* String.prototype.slice(0, n)
sliceTo(s, n) == SubSeq(s, 1, IF Len(s) < n THEN Len(s) ELSE n)

\* replace(/<[^>]+>/g, ' ')
RECURSIVE stripTags(_)
stripTags(s) ==
    IF s = <<>> THEN <<>>
    ELSE LET closes == {j \in 2..Len(s) : s[j] = ">"}
             close == IF closes = {} THEN 0 ELSE CHOOSE j \in closes : \A k \in closes : j <= k
         IN  IF Head(s) = "<" /\ close >= 3
             THEN <<" ">> \o stripTags(SubSeq(s, close + 1, Len(s)))
             ELSE <<Head(s)>> \o stripTags(Tail(s))

\* replace(/\s+/g, ' ')
RECURSIVE collapseSpaces(_)
collapseSpaces(s) ==
    IF s = <<>> THEN <<>>
    ELSE IF Head(s) \in WhiteSpace
         THEN <<" ">> \o collapseSpaces(trimStart(s))
         ELSE <<Head(s)>> \o collapseSpaces(Tail(s))

\* title.match(/<sep>(.{lo,hi})$/): the capture of the leftmost match, or
\* None. `.` matches no line break; with `ci` the separator is matched
\* without regard to case.
tailMatch(title, sep, lo, hi, ci) ==
    LET t == IF ci THEN toLowerCase(title) ELSE title
        starts == {i \in 1..(Len(title) - Len(sep) + 1) :
                      /\ SubSeq(t, i, i + Len(sep) - 1) = sep
                      /\ Len(title) - (i + Len(sep)) + 1 >= lo
                      /\ Len(title) - (i + Len(sep)) + 1 <= hi
                      /\ \A k \in (i + Len(sep))..Len(title) : title[k] \notin {"\n", "\r"}}
    IN  IF starts = {} THEN None
        ELSE Some(SubSeq(title, (CHOOSE i \in starts : \A j \in starts : i <= j) + Len(sep),
                         Len(title)))

\* part_001:29-38
extractCompany(title) ==
    LET atMatch == tailMatch(title, <<" ", "@", " ">>, 2, 60, FALSE)
        atLower == tailMatch(title, <<" ", "a", "t", " ">>, 2, 40, TRUE)
        pipeMatch == tailMatch(title, <<"|">>, 2, 40, FALSE)
    IN  IF atMatch # None THEN Some(trim(atMatch[1]))
        ELSE IF atLower # None THEN Some(trim(atLower[1]))
        ELSE IF pipeMatch # None THEN Some(trim(pipeMatch[1]))
        ELSE None

\* part_001:101
FEED_CAP == 30

\* part_001:86
SNIPPET_LEN == 200

\* part_001:80-98: the RawResult pushed for an <item>, or nothing.
feedItemResult(it, kw) ==
    LET link == IF it.link # "" THEN it.link ELSE it.guid
        snippet == sliceTo(trim(collapseSpaces(stripTags(it.description))), SNIPPET_LEN)
        pubDate == IF ~it.pubDate.empty THEN it.pubDate ELSE it.dcDate
        searchText == toLowerCase(it.title \o <<" ">> \o snippet)
    IN  IF link = "" \/ it.title = <<>> THEN <<>>
        ELSE IF someIncluded(searchText, kw)
             THEN << [url |-> link, title |-> it.title, snippet |-> snippet,
                      site |-> NOFLUFFJOBS, age_days |-> rssDateToAgeDays(pubDate)] >>
             ELSE <<>>

RECURSIVE feedItemResults(_, _)
feedItemResults(items, kw) ==
    IF items = <<>> THEN <<>>
    ELSE feedItemResult(Head(items), kw) \o feedItemResults(Tail(items), kw)

\* part_001:75-101, applied to the items of the feed the request resolved with
fetchNoFluffJobsRSS(items, keywords) ==
    sliceTo(feedItemResults(items, [n \in 1..Len(keywords) |-> toLowerCase(keywords[n])]),
            FEED_CAP)

\* part_001:24-26; the letters a-ogonek, l-stroke and o-acute are written by
\* name.
GHOST_PHRASES ==
    << <<"t", "a", "l", "e", "n", "t", " ", "p", "o", "o", "l">>,
      <<"p", "u", "l", "a", " ", "t", "a", "l", "e", "n", "t">>,
      <<"v", "a", "r", "i", "o", "u", "s", " ", "c", "l", "i", "e", "n", "t", "s">>,
      <<"m", "u", "l", "t", "i", "p", "l", "e", " ", "p", "o", "s", "i", "t", "i", "o",
        "n">>,
      <<"o", "n", "g", "o", "i", "n", "g", " ", "r", "e", "c", "r", "u", "i", "t", "m",
        "e", "n", "t">>,
      <<"c", "i", "a-ogonek", "g", "l-stroke", "y", " ", "n", "a", "b", "o-acute", "r">>,
      <<"a", "l", "w", "a", "y", "s", " ", "l", "o", "o", "k", "i", "n", "g">>,
      <<"p", "i", "p", "e", "l", "i", "n", "e">>,
      <<"f", "u", "t", "u", "r", "e", " ", "o", "p", "p", "o", "r", "t", "u", "n", "i",
        "t">>,
      <<"s", "p", "e", "c", "u", "l", "a", "t", "i", "v", "e">> >>

\* part_001:22-27
isGhostPreflag(title, snippet) ==
    LET t == toLowerCase(title \o <<" ">> \o snippet)
    IN  someIncluded(t, GHOST_PHRASES)

\* part_001:220, r.age_days ?? null: only null and undefined become null.
ageOrNull(a) == IF a = None THEN None ELSE a

\* part_001:207-226 with the fields derived from the listing itself
\* (has_salary is left out).
toListedResult(r, log) ==
    LET alreadySeen == r.url \in seenUrlsOf(log)
    IN  [url |-> r.url, title |-> r.title, company |-> extractCompany(r.title),
         site |-> r.site, snippet |-> r.snippet, age_days |-> ageOrNull(r.age_days),
         ghost_preflag |-> isGhostPreflag(r.title, r.snippet),
         already_seen |-> alreadySeen,
         seen_days_ago |-> IF alreadySeen THEN Some(seenDaysAgo(findEntry(log, r.url).date))
                           ELSE None]

listedResults(rs, log) ==
    LET unique == dedupByUrl(rs)
    IN  [i \in 1..Len(unique) |-> toListedResult(unique[i], log)]

\* ---- the feeds the request resolves with ----

ACME == <<"A", "c", "m", "e">>

\* Titles: a head alone, a head and one separator and a tail (a name, one
\* letter, blanks, a name between blanks, a name with a line break, 41 and
\* 61 letters), a head and two separators, no title, a title without the
\* keyword.
FeedTitles ==
    LET Fill(n) == [i \in 1..n |-> "x"]
        TitleHeads == {<<"Q", "A">>, <<"Q", "A", " ", "D", "e", "v">>}
        TitleSeps == {<<" ", "@", " ">>, <<" ", "a", "t", " ">>, <<" ", "A", "T", " ">>,
                      <<"|">>, <<" ", "|", " ">>}
        TitleTails == {ACME, <<"A">>, <<" ", " ">>, <<" ">> \o ACME \o <<" ">>,
                       <<"A", "c", "\n", "m", "e">>, Fill(41), Fill(61)}
    IN  {<<>>, <<"D", "e", "v", " ", "@", " ">> \o ACME}
        \cup TitleHeads
        \cup {h \o sp \o t : h \in TitleHeads, sp \in TitleSeps, t \in TitleTails}
        \cup {h \o s1 \o <<"B", "2">> \o s2 \o ACME :
                  h \in TitleHeads, s1 \in TitleSeps, s2 \in TitleSeps}

DESC_HTML ==
    <<"<", "p", ">", "R", "e", "m", "o", "t", "e", " ", "\n", "j", "o", "b", "<", "/", "p", ">">>

FeedDates ==
    {NoDate, BadDate, DateAt(NowMs), DateAt(NowMs - MS_PER_DAY),
     DateAt(NowMs - 3 * MS_PER_DAY - 3600000), DateAt(NowMs + MS_PER_DAY)}

FeedItems ==
    {[title |-> t, link |-> "u1", guid |-> "", description |-> DESC_HTML,
      pubDate |-> DateAt(NowMs - MS_PER_DAY), dcDate |-> NoDate] : t \in FeedTitles}
    \cup [title : {<<"Q", "A", " ", "@", " ">> \o ACME}, link : {"", "u1"}, guid : {"", "u2"},
          description : {<<>>, DESC_HTML}, pubDate : FeedDates,
          dcDate : {NoDate, DateAt(NowMs)}]

FillerItem ==
    [title |-> <<"Q", "A">>, link |-> "u1", guid |-> "", description |-> <<>>,
     pubDate |-> DateAt(NowMs), dcDate |-> NoDate]

FeedKeywords == <<KEY_QA>>

FeedInit ==
    /\ RetryIdle
    /\ FilterIdle
    /\ DiscIdle
    /\ SearchIdle
    /\ PeerIdle
    /\ AnalyzeIdle
    /\ feedItems \in {<<it>> : it \in FeedItems} \cup {<<it, FillerItem>> : it \in FeedItems}
    /\ feedpc = "request"
    /\ feedRaw = <<>>
    /\ feedResults = <<>>

\* The request for the feed resolves and fetchNoFluffJobsRSS returns
\* (part_001:69-101).
FeedFetched ==
    /\ feedpc = "request"
    /\ feedRaw' = fetchNoFluffJobsRSS(feedItems, FeedKeywords)
    /\ feedpc' = "fetched"
    /\ UNCHANGED <<feedItems, feedResults, searchVars, peer, analyzeVars, retryVars, filterVars, discVars>>

\* discoverJobs removes the duplicates and builds its results
\* (part_001:199-226), the history being empty.
FeedListed ==
    /\ feedpc = "fetched"
    /\ feedResults' = listedResults(feedRaw, <<>>)
    /\ feedpc' = "done"
    /\ UNCHANGED <<feedItems, feedRaw, searchVars, peer, analyzeVars, retryVars, filterVars, discVars>>

FeedNext == FeedFetched \/ FeedListed

FeedSpec == FeedInit /\ [][FeedNext]_vars

\* ---- feed entries and what is made of them ----

ItemUrl(it) == IF it.link # "" THEN it.link ELSE it.guid
ItemDate(it) == IF ~it.pubDate.empty THEN it.pubDate ELSE it.dcDate

\* The entry has a link and a title and matches the keyword.
ItemWanted(it) ==
    /\ ItemUrl(it) # ""
    /\ it.title # <<>>
    /\ includes(toLowerCase(it.title), toLowerCase(KEY_QA))

\* The first wanted entry of the feed with the url of result i.
SourceItem(i) ==
    feedItems[CHOOSE k \in 1..Len(feedItems) :
                  /\ ItemWanted(feedItems[k])
                  /\ ItemUrl(feedItems[k]) = feedResults[i].url
                  /\ \A j \in 1..(k - 1) :
                        ~(ItemWanted(feedItems[j]) /\ ItemUrl(feedItems[j]) = feedResults[i].url)]

\* C18 as stated: the age_days of every feed entry is either absent or a
\* non-negative whole number of days (the whole days from its publish
\* timestamp to now, 0 for a timestamp in the future), a timestamp that
\* cannot be parsed gives an absent age, and the entry is kept all the same.
C18_AgeAbsentOrWholeDays ==
    feedpc = "done" =>
        /\ \A k \in 1..Len(feedItems) :
              ItemWanted(feedItems[k]) =>
                  \E i \in 1..Len(feedResults) : feedResults[i].url = ItemUrl(feedItems[k])
        /\ \A i \in 1..Len(feedResults) :
              LET a == feedResults[i].age_days
                  d == ItemDate(SourceItem(i))
              IN  /\ a = None \/ (~a[1].nan /\ a[1].val >= 0)
                  /\ ~d.valid => a = None
                  /\ (d.valid /\ d.ms >= NowMs) => a = Some(Num(0))
                  /\ (d.valid /\ d.ms < NowMs) => a = Some(Num((NowMs - d.ms) \div MS_PER_DAY))

\* C19 as stated: extractCompany returns the trimmed capture of the first of
\* the conventions "Title @ Company", "Title at Company" (any case) and
\* "Title | Company" that matches, null when none matches, and for every
\* title either null or a non-empty string, never the empty string.
C19_CompanyNullOrNonEmpty ==
    feedpc = "done" =>
        \A i \in 1..Len(feedResults) :
            LET c == feedResults[i].company
                t == feedResults[i].title
                m1 == tailMatch(t, <<" ", "@", " ">>, 2, 60, FALSE)
                m2 == tailMatch(t, <<" ", "a", "t", " ">>, 2, 40, TRUE)
                m3 == tailMatch(t, <<"|">>, 2, 40, FALSE)
            IN  /\ c = None \/ c[1] # <<>>
                /\ c = None <=> (m1 = None /\ m2 = None /\ m3 = None)
                /\ m1 # None => c = Some(trim(m1[1]))
                /\ (m1 = None /\ m2 # None) => c = Some(trim(m2[1]))
                /\ (m1 = None /\ m2 = None /\ m3 # None) => c = Some(trim(m3[1]))

(***************************************************************************)
(* The ghost pre-flag of the results discoverJobs builds                   *)
(* (part_001:22-27, 207-226)                                               *)
(***************************************************************************)

ONGOING_FUTURE ==
    <<"o", "n", "g", "o", "i", "n", "g", " ", "r", "e", "c", "r", "u", "i", "t", "m", "e",
      "n", "t", " ", "f", "o", "r", " ", "f", "u", "t", "u", "r", "e", " ", "o", "p", "p",
      "o", "r", "t", "u", "n", "i", "t", "i", "e", "s">>

PIPELINE == <<"p", "i", "p", "e", "l", "i", "n", "e">>

\* One listing has been collected and the results are about to be built.
\* The titles and snippets are those of concrete single-role postings, of
\* postings that recruit for no role in particular, and of concrete postings
\* that name a delivery pipeline.
PreflagInit ==
    /\ RetryIdle
    /\ FilterIdle
    /\ DiscIdle
    /\ SearchIdle
    /\ PeerIdle
    /\ AnalyzeIdle
    /\ feedItems = <<>>
    /\ feedpc = "fetched"
    /\ LET PreflagTitles == {<<"Q", "A", " ", "E", "n", "g", "i", "n", "e", "e", "r">>,
             <<"S", "e", "n", "i", "o", "r", " ", "Q", "A", " ", "@", " ", "A", "c", "m", "e">>,
             <<"T", "e", "s", "t", " ", "A", "u", "t", "o", "m", "a", "t", "i", "o", "n", " ", "E",
               "n", "g", "i", "n", "e", "e", "r">>,
             <<"Q", "A", " ", "T", "a", "l", "e", "n", "t">>,
             <<"D", "e", "v", "O", "p", "s", " ", "E", "n", "g", "i", "n", "e", "e", "r">>,
             <<"T", "a", "l", "e", "n", "t", " ", "P", "o", "o", "l">>}
           PreflagSnippets == {<<>>,
             <<"O", "n", "g", "o", "i", "n", "g", " ", "r", "e", "c", "r", "u", "i", "t", "m", "e",
               "n", "t", " ", "f", "o", "r", " ", "f", "u", "t", "u", "r", "e", " ", "o", "p", "p",
               "o", "r", "t", "u", "n", "i", "t", "i", "e", "s">>,
             <<"W", "e", " ", "a", "r", "e", " ", "A", "L", "W", "A", "Y", "S", " ", "L", "O", "O",
               "K", "I", "N", "G", " ", "f", "o", "r", " ", "t", "e", "s", "t", "e", "r", "s">>,
             <<"B", "u", "i", "l", "d", " ", "a", "n", "d", " ", "m", "a", "i", "n", "t", "a", "i",
               "n", " ", "o", "u", "r", " ", "C", "I", "/", "C", "D", " ", "p", "i", "p", "e", "l",
               "i", "n", "e">>,
             <<"W", "r", "i", "t", "e", " ", "P", "l", "a", "y", "w", "r", "i", "g", "h", "t", " ",
               "t", "e", "s", "t", "s", " ", "f", "o", "r", " ", "t", "h", "e", " ", "c", "h", "e",
               "c", "k", "o", "u", "t">>,
             <<"J", "o", "i", "n", " ", "o", "u", "r", " ", "t", "a", "l", "e", "n", "t", " ", "p",
               "i", "p", "e", "l", "i", "n", "e">>,
             <<"S", "p", "e", "c", "u", "l", "a", "t", "i", "v", "e", " ", "a", "p", "p", "l", "i",
               "c", "a", "t", "i", "o", "n", "s", " ", "w", "e", "l", "c", "o", "m", "e">>,
             <<"R", "o", "l", "e", "s", " ", "f", "o", "r", " ", "v", "a", "r", "i", "o", "u", "s",
               " ", "c", "l", "i", "e", "n", "t", "s">>,
             <<"p", "o", "o", "l", " ", "o", "f", " ", "r", "e", "g", "r", "e", "s", "s", "i", "o",
               "n", " ", "s", "u", "i", "t", "e", "s", " ", "t", "o", " ", "a", "u", "t", "o", "m",
               "a", "t", "e">>,
             <<"R", "e", "l", "e", "a", "s", "e", " ", "t", "h", "e", " ", "b", "i", "l", "l", "i",
               "n", "g", " ", "A", "P", "I", " ", "b", "y", " ", "Q", "3">>}
       IN  feedRaw \in {<< [url |-> "u1", title |-> t, snippet |-> sn,
                             site |-> NOFLUFFJOBS, age_days |-> None] >> :
                              t \in PreflagTitles, sn \in PreflagSnippets}
    /\ feedResults = <<>>

PreflagSpec == PreflagInit /\ [][FeedListed]_vars

ListingText(r) == toLowerCase(r.title \o <<" ">> \o r.snippet)

\* The phrases of perpetual or placeholder recruiting: those of the
\* detector, the word pipeline counting in "talent pipeline" only.
RecruitingPhrases ==
    LET talent == <<"t", "a", "l", "e", "n", "t", " ">>
    IN  [k \in 1..Len(GHOST_PHRASES) |->
            IF GHOST_PHRASES[k] = PIPELINE THEN talent \o PIPELINE ELSE GHOST_PHRASES[k]]

\* C23 as stated: the ghost pre-flag is true for a text containing "ongoing
\* recruitment for future opportunities" and false for every concrete
\* single-role posting whose text contains none of the perpetual or
\* placeholder recruiting phrases as a phrase, postings whose deliverables
\* mention a CI/CD pipeline included.
C23_PreflagOnlyOnRecruitingPhrases ==
    feedpc = "done" =>
        \A i \in 1..Len(feedResults) :
            /\ includes(ListingText(feedResults[i]), ONGOING_FUTURE)
                  => feedResults[i].ghost_preflag
            /\ ~someIncluded(ListingText(feedResults[i]), RecruitingPhrases)
                  => ~feedResults[i].ghost_preflag

\* The same, for the postings that do not use the word pipeline.
C23_ExceptPipeline ==
    feedpc = "done" =>
        \A i \in 1..Len(feedResults) :
            ~includes(ListingText(feedResults[i]), PIPELINE) =>
                /\ includes(ListingText(feedResults[i]), ONGOING_FUTURE)
                      => feedResults[i].ghost_preflag
                /\ feedResults[i].ghost_preflag
                      <=> someIncluded(ListingText(feedResults[i]), RecruitingPhrases)

(***************************************************************************)
(* One server process: POST /api/analyze requests, interleaved at their    *)
(* awaits, and PATCH /api/applications/:id requests (server.ts:35-47,      *)
(* 74-130; log/appLog.ts:19-33).                                           *)
(***************************************************************************)

\* The milliseconds that pass after NowMs while the requests are served.
MaxClock == 1

\* Number.prototype.toString of a non-negative integer: its decimal digits.
RECURSIVE numToString(_)
numToString(n) ==
    LET digits == <<"0", "1", "2", "3", "4", "5", "6", "7", "8", "9">>
    IN  IF n < 10 THEN <<digits[n + 1]>>
        ELSE numToString(n \div 10) \o <<digits[(n % 10) + 1]>>

\* server.ts:35
VALID_STATUSES == <<"new", "applied", "phone_screen", "interview", "offer", "rejected">>

\* server.ts:40, the test the handler rejects a body on; '' is falsy.
statusAcceptedAny(status) == status # None
statusAccepted(status) ==
    /\ status # None
    /\ status[1] # ""
    /\ \E k \in 1..Len(VALID_STATUSES) : VALID_STATUSES[k] = status[1]

\* Array.prototype.findIndex with (e) => e.id === id: a 0-based index or -1.
findIndex(entries, id) ==
    IF \E k \in 1..Len(entries) : entries[k].id = id
    THEN (CHOOSE k \in 1..Len(entries) :
              /\ entries[k].id = id
              /\ \A j \in 1..(k - 1) : entries[j].id # id) - 1
    ELSE -1

\* appLog.ts:30, { ...entry, ...updates }: the fields of updates replace
\* those of the entry, the others are kept.
spread(entry, updates) == updates @@ entry

\* appLog.ts:26-33: whether the call threw, the value returned and the file
\* left behind.
updateEntryAll(file, id, updates) ==
    LET l == loadLog(file)
    IN  IF l.thrown \/ ~l.isArray THEN [thrown |-> TRUE, ok |-> FALSE, file |-> file]
        ELSE IF findIndex(l.entries, id) = -1
        THEN [thrown |-> FALSE, ok |-> FALSE, file |-> file]
        ELSE [thrown |-> FALSE, ok |-> TRUE,
              file |-> [state |-> "list",
                        entries |-> [k \in 1..Len(l.entries) |->
                                        IF l.entries[k].id = id
                                        THEN spread(l.entries[k], updates)
                                        ELSE l.entries[k]]]]
updateEntry(file, id, updates) ==
    LET l == loadLog(file)
        at == findIndex(l.entries, id)
    IN  IF l.thrown \/ ~l.isArray THEN [thrown |-> TRUE, ok |-> FALSE, file |-> file]
        ELSE IF at = -1 THEN [thrown |-> FALSE, ok |-> FALSE, file |-> file]
        ELSE [thrown |-> FALSE, ok |-> TRUE,
              file |-> [state |-> "list",
                        entries |-> [l.entries EXCEPT ![at + 1] = spread(@, updates)]]]

\* server.ts:37-47: the status code of the response and the file left
\* behind. A throw of updateEntry reaches the framework, which answers 500.
patchApplication(file, id, status) ==
    IF ~statusAccepted(status) THEN [code |-> 400, file |-> file]
    ELSE LET u == updateEntry(file, id, [status |-> status])
         IN  IF u.thrown THEN [code |-> 500, file |-> file]
             ELSE IF ~u.ok THEN [code |-> 404, file |-> file]
             ELSE [code |-> 200, file |-> u.file]

\* server.ts:67-72, posting dates being day numbers and the server's day
\* starting at UTC midnight.
computeAgeDays(postingDate) ==
    IF postingDate = None THEN None
    ELSE Some((Today * MS_PER_DAY - DateToMs(postingDate[1])) \div (1000 * 60 * 60 * 24))

\* server.ts:92-106, the fields the log and the filters are about; status is
\* not set.
analyzeEntry(now, jd, result, age) ==
    [id |-> numToString(now), url |-> jd, date |-> Today,
     match_score |-> result.match_score, ghost_score |-> result.ghost_score,
     posting_age_days |-> age, status |-> None]

\* part_002:413-427: the report file is written, then the dashboard; either
\* write can throw.
ReportOutcomes == {"written", "report write fails", "dashboard write fails"}
generateReport(outcome) ==
    [thrown |-> outcome # "written", written |-> outcome # "report write fails"]

\* ---- the requests the process serves ----

Requests == {"r1", "r2"}

CV_FILE == "cv.pdf"

\* Each request is for a posting of its own.
JdOf(r) == IF r = "r1" THEN "u1" ELSE "u2"

ReqIdle ==
    [pc |-> "idle", jd |-> None, posting_date |-> None, result |-> None, id |-> None,
     filters |-> None, code |-> 0, cause |-> "none", logged |-> FALSE, report |-> FALSE]

\* A log holding one application that has been given a status.
SampleAppLog ==
    [state |-> "list",
     entries |-> << [id |-> numToString(NowMs - MS_PER_DAY), url |-> "u1", date |-> 0, match_score |-> 100,
                     ghost_score |-> 0, posting_age_days |-> None,
                     status |-> Some("applied")] >>]

AnalyzeInit ==
    /\ RetryIdle
    /\ SearchIdle
    /\ PeerIdle
    /\ FeedIdle
    /\ caller = "none"
    /\ reqSites = None
    /\ reqKeywords = None
    /\ logFile \in {[state |-> "missing", entries |-> <<>>],
                    [state |-> "garbage", entries |-> <<>>],
                    [state |-> "unreadable", entries |-> <<>>],
                    SampleAppLog}
    /\ dpc = "none"
    /\ dargs = None
    /\ idx = 0
    /\ dlog = <<>>
    /\ logReads = 0
    /\ raw = <<>>
    /\ calls = <<>>
    /\ elapsed = 0
    /\ dreturn = None
    /\ response = None
    /\ fconfig = FullConfig
    /\ fresult = [match_score |-> 0, ghost_score |-> 0]
    /\ fjd = <<>>
    /\ fage = None
    /\ fchecks = <<>>
    /\ fpc = "idle"
    /\ areq = [r \in Requests |-> ReqIdle]
    /\ clock = NowMs
    /\ journal = IF logApplicationThrows(logFile) THEN <<>> ELSE loadLog(logFile).entries
    /\ lastPatch = None

analyzeFrame == <<ownVars, retryVars, filterVars, searchVars, peer, feedVars>>

\* server.ts:75-83: the body is checked, the config loaded and parsePDF
\* called.
AnalyzeStart(r) ==
    /\ areq[r].pc = "idle"
    /\ \E cv \in {None, Some(CV_FILE), Some("other.pdf")}, jd \in {None, Some(JdOf(r))} :
          areq' = [areq EXCEPT ![r] =
                      IF cv = None \/ jd = None
                      THEN [@ EXCEPT !.pc = "done", !.code = 400, !.cause = "body"]
                      ELSE IF cv[1] # CV_FILE
                      THEN [@ EXCEPT !.pc = "done", !.code = 400, !.cause = "cv not found"]
                      ELSE [@ EXCEPT !.pc = "parsePDF", !.jd = jd]]
    /\ UNCHANGED <<logFile, clock, journal, lastPatch, analyzeFrame>>

\* server.ts:83-84: parsePDF resolves and scrapeJD is called.
ParsePDFReturns(r) ==
    /\ areq[r].pc = "parsePDF"
    /\ areq' = [areq EXCEPT ![r].pc = "scrapeJD"]
    /\ UNCHANGED <<logFile, clock, journal, lastPatch, analyzeFrame>>

\* server.ts:84-85: scrapeJD resolves with the text JD_REMOTE, with or
\* without a posting date, and analyzeMatch is called.
ScrapeJDReturns(r) ==
    /\ areq[r].pc = "scrapeJD"
    /\ \E pd \in {None, Some(Today - 11)} :
          areq' = [areq EXCEPT ![r].pc = "analyzeMatch", ![r].posting_date = pd]
    /\ UNCHANGED <<logFile, clock, journal, lastPatch, analyzeFrame>>

\* server.ts:127-129: the promise the request awaits rejects (the CV or the
\* JD cannot be fetched, the model call fails or its answer cannot be
\* parsed) and the catch answers 500.
AwaitRejects(r) ==
    /\ areq[r].pc \in {"parsePDF", "scrapeJD", "analyzeMatch"}
    /\ areq' = [areq EXCEPT ![r].pc = "done", ![r].code = 500, ![r].cause = areq[r].pc]
    /\ UNCHANGED <<logFile, clock, journal, lastPatch, analyzeFrame>>

\* server.ts:85-129: analyzeMatch resolves and the handler runs to its
\* response: the entry, evaluateFilters, logApplication, generateReport.
AnalyzeMatchReturns(r) ==
    /\ areq[r].pc = "analyzeMatch"
    /\ \E result \in {[match_score |-> 60, ghost_score |-> 50],
                      [match_score |-> 59, ghost_score |-> 51]},
          now \in clock..(NowMs + MaxClock), outcome \in ReportOutcomes :
          LET age == computeAgeDays(areq[r].posting_date)
              entry == analyzeEntry(now, areq[r].jd[1], result, age)
              filters == evaluateFilters(fconfig, result, JD_REMOTE, age)
              rep == generateReport(outcome)
          IN  /\ clock' = now
              /\ IF logApplicationThrows(logFile)
                 THEN /\ areq' = [areq EXCEPT ![r] =
                                     [@ EXCEPT !.pc = "done", !.result = Some(result),
                                               !.id = Some(entry.id),
                                               !.filters = Some(filters), !.code = 500,
                                               !.cause = "logApplication"]]
                      /\ UNCHANGED <<logFile, journal>>
                 ELSE /\ logFile' = logApplication(logFile, entry)
                      /\ journal' = Append(journal, entry)
                      /\ areq' = [areq EXCEPT ![r] =
                                     [@ EXCEPT !.pc = "done", !.result = Some(result),
                                               !.id = Some(entry.id),
                                               !.filters = Some(filters), !.logged = TRUE,
                                               !.report = rep.written,
                                               !.code = IF rep.thrown THEN 500 ELSE 200,
                                               !.cause = IF rep.thrown THEN "generateReport"
                                                         ELSE "none"]]
    /\ UNCHANGED <<lastPatch, analyzeFrame>>

\* server.ts:37-47: a status-update request, handled without an await.
PatchApplication ==
    /\ \E id \in {numToString(NowMs - MS_PER_DAY), numToString(NowMs), <<"x">>},
          status \in {None, Some("offer"), Some("archived")} :
          LET p == patchApplication(logFile, id, status)
          IN  /\ logFile' = p.file
              /\ lastPatch' = Some([id |-> id, status |-> status, code |-> p.code])
    /\ UNCHANGED <<areq, clock, journal, analyzeFrame>>

AnalyzeNext ==
    \/ \E r \in Requests :
          \/ AnalyzeStart(r)
          \/ ParsePDFReturns(r)
          \/ ScrapeJDReturns(r)
          \/ AwaitRejects(r)
          \/ AnalyzeMatchReturns(r)
    \/ PatchApplication

AnalyzeSpec == AnalyzeInit /\ [][AnalyzeNext]_vars

\* ---- what a request has done ----

Analysed(r) == areq[r].pc = "done" /\ areq[r].filters # None

\* One of the checks named is in the request's filters and did not pass.
FailsOneOf(r, names) ==
    \E i \in 1..Len(areq[r].filters[1]) :
        /\ areq[r].filters[1][i].name \in names
        /\ ~areq[r].filters[1][i].passed

\* C22 as stated: when an analysed posting fails the Match Score, Ghost Risk
\* or Freshness filter, the analyze operation skips it: it is not appended
\* to the application log and no report is generated for it.
C22_FailingPostingSkipped ==
    \A r \in Requests :
        (Analysed(r) /\ FailsOneOf(r, {"Match Score", "Ghost Risk", "Freshness"})) =>
            /\ ~areq[r].logged
            /\ ~areq[r].report
            /\ areq[r].code # 200

\* The entries the log holds, and an entry apart from its status.
Held(file) == loadLog(file).entries
withoutStatus(e) == [e EXCEPT !.status = None]
Unmarked(es) == [k \in 1..Len(es) |-> withoutStatus(es[k])]

\* The requests whose logApplication call is made in the step.
Loggers == {r \in Requests : ~areq[r].logged /\ areq'[r].logged}

C26_Log ==
    /\ Unmarked(Held(logFile)) = Unmarked(journal)
    /\ \A r \in Requests :
          areq[r].logged =>
              \E k \in 1..Len(Held(logFile)) :
                  /\ Held(logFile)[k].id = areq[r].id[1]
                  /\ Held(logFile)[k].url = areq[r].jd[1]
    /\ (lastPatch # None /\ lastPatch[1].code = 200) =>
          Held(logFile)[findIndex(Held(logFile), lastPatch[1].id) + 1].status
              = lastPatch[1].status

C26_Step ==
    LET before == Held(logFile)
        after == Held(logFile')
    IN  /\ Cardinality(Loggers) <= 1
        /\ \A r \in Loggers :
              /\ Len(after) = Len(before) + 1
              /\ SubSeq(after, 1, Len(before)) = before
              /\ after[Len(after)].id = areq'[r].id[1]
              /\ after[Len(after)].url = areq'[r].jd[1]
              /\ after[Len(after)].status = None
        /\ Loggers = {} =>
              /\ Unmarked(after) = Unmarked(before)
              /\ \A k \in 1..Len(before) :
                    after[k].status # before[k].status =>
                        /\ lastPatch' # None
                        /\ lastPatch'[1].code = 200
                        /\ lastPatch'[1].id = after[k].id
                        /\ lastPatch'[1].status = after[k].status

\* C26: for any interleaving of concurrent analyze requests and status
\* updates handled by one server process, no logged entry is lost or
\* duplicated: each logApplication call adds exactly its entry after the
\* entries held before, so that after n calls the log holds n more entries,
\* in the order the requests logged them, and each status update is
\* preserved: a status changes only in a later accepted update of that entry.
C26_NoLostEntryOrUpdate == []C26_Log /\ [][C26_Step]_vars

C26_Witness ==
    /\ areq["r1"].logged
    /\ areq["r2"].logged
    /\ areq["r1"].id = Some(numToString(NowMs))
    /\ areq["r2"].id = Some(numToString(NowMs + 1))
    /\ lastPatch # None
    /\ lastPatch[1].code = 200
    /\ lastPatch[1].id = numToString(NowMs)
    /\ Len(Held(logFile)) = 3
    /\ Held(logFile)[1].status = Some("applied")
    /\ Held(logFile)[2].status = Some("offer")
    /\ Held(logFile)[3].status = None
    /\ Held(logFile)[3].id = numToString(NowMs + 1)

\* The request is over and was answered with an error.
EndedInError(r) == areq[r].pc = "done" /\ areq[r].code # 200

\* C27 as stated: whenever the analyze operation ends with an error (the CV
\* or the JD cannot be fetched, the model call fails, its answer cannot be
\* parsed, or the report cannot be written), the request has added nothing
\* to the application log: an entry is only ever logged for an analysis
\* whose report was produced.
C27_ErrorLeavesLogAsBefore ==
    \A r \in Requests :
        /\ EndedInError(r) => ~areq[r].logged
        /\ areq[r].logged => areq[r].report

\* The same, for the errors raised before generateReport is called.
C27_ExceptReportFailure ==
    \A r \in Requests :
        (EndedInError(r) /\ areq[r].cause # "generateReport") => ~areq[r].logged

\* C28 as stated: the ids of the entries in the application log are pairwise
\* distinct after any sequence of analyze operations, requests that complete
\* concurrently included, so that a status update addressed to an id affects
\* the one entry that has it.
C28_IdsDistinct ==
    \A j, k \in 1..Len(Held(logFile)) :
        j # k => Held(logFile)[j].id # Held(logFile)[k].id

\* The same, for requests that read the clock in different milliseconds.
C28_DistinctInstantsDistinctIds ==
    (areq["r1"].logged /\ areq["r2"].logged) =>
        (areq["r1"].id = areq["r2"].id) = ~C28_IdsDistinct

\* A step of a status-update request: every other step changes areq.
PatchStep == areq' = areq /\ lastPatch' # None

\* C29: updateEntry(id, {status}), as the status-update handler calls it,
\* changes only the status field of one entry whose id equals id and leaves
\* every other field of that entry, every other entry, and the number and
\* order of the entries unchanged, returning true (the handler answers 200);
\* when no entry has that id it returns false (the handler answers 404) and
\* the log is left unchanged.
C29_UpdateChangesOneStatus ==
    [][(PatchStep /\ lastPatch'[1].code \in {200, 404}) =>
          LET before == Held(logFile)
              after == Held(logFile')
              id == lastPatch'[1].id
              matches == {k \in 1..Len(before) : before[k].id = id}
          IN  /\ lastPatch'[1].code = 200 <=> matches # {}
              /\ lastPatch'[1].code = 200 =>
                    /\ Len(after) = Len(before)
                    /\ \E k \in matches :
                          /\ after[k] = [before[k] EXCEPT !.status = lastPatch'[1].status]
                          /\ \A j \in 1..Len(before) : j # k => after[j] = before[j]
              /\ lastPatch'[1].code = 404 => logFile' = logFile]_vars

C29_Witness ==
    /\ lastPatch # None
    /\ lastPatch[1].code = 200
    /\ lastPatch[1].id = numToString(NowMs)
    /\ Len(Held(logFile)) = 3
    /\ Held(logFile)[2].id = numToString(NowMs)
    /\ Held(logFile)[3].id = numToString(NowMs)
    /\ Held(logFile)[1].status = Some("applied")
    /\ Held(logFile)[2].status = Some("offer")
    /\ Held(logFile)[3].status = None

ApplicationStatuses == {"new", "applied", "phone_screen", "interview", "offer", "rejected"}

C30_Statuses ==
    \A k \in 1..Len(Held(logFile)) :
        \/ Held(logFile)[k].status = None
        \/ Held(logFile)[k].status[1] \in ApplicationStatuses

C30_Step ==
    PatchStep =>
        LET p == lastPatch'[1]
            known == \E k \in 1..Len(Held(logFile)) : Held(logFile)[k].id = p.id
        IN  /\ (p.status = None \/ p.status[1] \notin ApplicationStatuses) =>
                  /\ p.code = 400
                  /\ logFile' = logFile
            /\ (p.status # None /\ p.status[1] \in ApplicationStatuses /\ ~known) =>
                  /\ p.code = IF loadLog(logFile).thrown THEN 500 ELSE 404
                  /\ logFile' = logFile
            /\ p.code = 200 => (known /\ p.status[1] \in ApplicationStatuses)

\* C30: after any sequence of analyze requests and status-update requests
\* the status of every logged application is either unset or one of new,
\* applied, phone_screen, interview, offer, rejected; a status-update request
\* with a missing or other status is rejected with an error (400) and leaves
\* the log unchanged, and a request for an unknown id is rejected with
\* not-found (404, the log being readable) and leaves the log unchanged.
C30_StatusesValid == []C30_Statuses /\ [][C30_Step]_vars

C30_Witness ==
    /\ lastPatch = Some([id |-> numToString(NowMs), status |-> Some("archived"), code |-> 400])
    /\ Len(Held(logFile)) = 2
    /\ Held(logFile)[1].status = Some("applied")
    /\ Held(logFile)[2].id = numToString(NowMs)
    /\ Held(logFile)[2].status = None

====
